---- MODULE Spec2Model ----
(***************************************************************************)
(* A model of the replication task of backbeat's multiple-backend          *)
(* extension (class MultipleBackendTask, bundled in                        *)
(* src/extensions/mongoProcessor/MongoQueueProcessor.js, lines 289-1387):  *)
(* the range planner (_getRangeSize, _getGCPRangeSize, _getRanges) and the *)
(* processing of one replication entry (_processReplicationEntry down to   *)
(* _handleReplicationOutcome).                                             *)
(*                                                                         *)
(* Two specifications share the module.  SpecPlanner runs the range        *)
(* planner on bounded inputs; Spec runs one replication task against a     *)
(* nondeterministic environment (the source and destination gateways).     *)
(***************************************************************************)
EXTENDS Integers, Sequences, FiniteSets, Bags, TLC

VARIABLES
    plan,   \* the planner run: its inputs, the locals of _getRanges, its result
    task,   \* the replication task: the entry, the position of the task in its
            \* callback chain, the upload session, the parts in flight, the
            \* metrics events in flight, and the history of what it issued,
            \* published and reported
    consumer,   \* the metrics consumer: its id and the site's counters
    mirror,     \* the mirror processor (MongoQueueProcessor) on one log entry
    attempt,    \* one attempt of a part transfer: the events it waits for,
                \* its once-wrapped callback, and what the callback received
    boot        \* the startup of the mirror processor or the metrics consumer

vars == <<plan, task, consumer, mirror, attempt, boot>>

(***************************************************************************)
(* Bounds of the model.                                                    *)
(***************************************************************************)
\* Retries a retry wrapper grants before it gives up (maxRetries).
MaxRetries == 1
\* Planner inputs lie within Window length units of each threshold.
Window == 1
\* Error answers the gateways give to the part transfers of one task, in the
\* runs that count them (the tasks of many parts).
MaxPartFaults == 1

(***************************************************************************)
(* Program constants.                                                      *)
(***************************************************************************)
MPU_CONC_LIMIT == 10
MPU_GCP_MAX_PARTS == 1024

\* JavaScript's null (the range of a 0-byte object) and undefined.
null == [null |-> TRUE]
undefined == "undefined"

(***************************************************************************)
(* RANGE PLANNER                                                           *)
(*                                                                         *)
(* Lengths are JavaScript numbers (doubles, exact below 2^53); TLC's       *)
(* integers are 32 bits wide, so a length is held in a unit of             *)
(* 2^20 / mib bytes, where mib is the number of units in one MiB:          *)
(* mib = 1048576 counts bytes, mib = 1024 counts KiB, mib = 1 counts MiB.  *)
(* The planner only compares ratios of lengths, doubles sizes and divides  *)
(* a power of two by 1024, so on lengths that are whole units it computes, *)
(* in units, what the code computes in bytes.                              *)
(***************************************************************************)

\* contentLen / rangeSize > k, as the code's float division decides it
\* (exact for these magnitudes), without forming k * rangeSize.
RatioExceeds(contentLen, rangeSize, k) ==
    \/ contentLen \div rangeSize > k
    \/ contentLen \div rangeSize = k /\ contentLen % rangeSize > 0

\* A faulty first loop: it stops as soon as the part count is 1024 or less.
RECURSIVE TargetThousandParts_Target1024(_, _, _)
TargetThousandParts_Target1024(contentLen, rangeSize, mib) ==
    IF RatioExceeds(contentLen, rangeSize, 1024) /\ ~(rangeSize >= mib * 512)
    THEN TargetThousandParts_Target1024(contentLen, rangeSize * 2, mib)
    ELSE rangeSize

\* First while loop of _getRangeSize: double up to 512 MiB while the part
\* count exceeds 1000.
RECURSIVE TargetThousandParts(_, _, _)
TargetThousandParts(contentLen, rangeSize, mib) ==
    IF RatioExceeds(contentLen, rangeSize, 1000) /\ ~(rangeSize >= mib * 512)
    THEN TargetThousandParts(contentLen, rangeSize * 2, mib)
    ELSE rangeSize

\* Second while loop of _getRangeSize: double while the part count exceeds 10000.
RECURSIVE AllowTenThousandParts(_, _)
AllowTenThousandParts(contentLen, rangeSize) ==
    IF RatioExceeds(contentLen, rangeSize, 10000)
    THEN AllowTenThousandParts(contentLen, rangeSize * 2)
    ELSE rangeSize

\* A faulty range size: the whole object is one range.
_getRangeSize_WholeObject(contentLen, mib) == contentLen

_getRangeSize(contentLen, mib) ==
    LET rangeSize == mib * 16
    IN  IF contentLen <= rangeSize
        THEN contentLen
        ELSE AllowTenThousandParts(contentLen,
                 TargetThousandParts(contentLen, rangeSize, mib))

\* Math.pow(2, Math.ceil(Math.log(contentLen) / Math.log(2))): the least power
\* of two >= contentLen.  At an exact power of two the quotient of the two
\* rounded logarithms may exceed the exponent by one ulp, and the ceiling is
\* then one too high: fpExcess (0 or 1) is that outcome of the floating-point
\* evaluation.
RECURSIVE LeastPowerOfTwo(_, _)
LeastPowerOfTwo(n, p) == IF p >= n THEN p ELSE LeastPowerOfTwo(n, p * 2)

PowCeilLog2(contentLen, fpExcess) ==
    LET p == LeastPowerOfTwo(contentLen, 1)
    IN  IF p = contentLen /\ fpExcess = 1 THEN p * 2 ELSE p

\* Math.ceil(a / b) for positive integers.
CeilDiv(a, b) == (a + b - 1) \div b

\* A faulty GCP range size: the 1024-part cap is forgotten.
_getGCPRangeSize_Uncapped(contentLen, mib, fpExcess) == _getRangeSize(contentLen, mib)

\* _getGCPRangeSize: the generic size, unless it gives more than 1024 parts.
_getGCPRangeSize(contentLen, mib, fpExcess) ==
    LET rangeSize == _getRangeSize(contentLen, mib)
    IN  IF RatioExceeds(contentLen, rangeSize, MPU_GCP_MAX_PARTS)
        THEN \* pow is in units; MPU_GCP_MAX_PARTS divides it whenever this
             \* branch is taken (rangeSize has reached 512 MiB).
             CeilDiv(PowCeilLog2(contentLen, fpExcess), MPU_GCP_MAX_PARTS)
        ELSE rangeSize

\* The locals of _getRanges once size is known.
RangesLocals(size) == [size |-> size, start |-> 0, end |-> 0, ranges |-> <<>>]

\* The loop condition of _getRanges.
RangesLoopCond(loc, contentLen) == loc.end < contentLen - 1

\* A faulty iteration: the next range starts on the last byte of this one.
RangesLoopBody_Overlapping(loc, contentLen) ==
    LET end == loc.start + loc.size - 1
    IN  IF end < contentLen - 1
        THEN [loc EXCEPT !.end = end,
                         !.ranges = Append(loc.ranges, [start |-> loc.start, end |-> end]),
                         !.start = end]
        ELSE [loc EXCEPT !.end = end]

\* One iteration of the while loop of _getRanges.
RangesLoopBody(loc, contentLen) ==
    LET end == loc.start + loc.size - 1
    IN  IF end < contentLen - 1
        THEN [loc EXCEPT !.end = end,
                         !.ranges = Append(loc.ranges, [start |-> loc.start, end |-> end]),
                         !.start = end + 1]
        ELSE [loc EXCEPT !.end = end]

\* The statement after the loop: the last range ends at contentLen - 1.
RangesLoopExit(loc, contentLen) ==
    Append(loc.ranges, [start |-> loc.start, end |-> contentLen - 1])

RECURSIVE RangesLoop(_, _)
RangesLoop(loc, contentLen) ==
    IF RangesLoopCond(loc, contentLen)
    THEN RangesLoop(RangesLoopBody(loc, contentLen), contentLen)
    ELSE RangesLoopExit(loc, contentLen)

RangesSize(contentLen, isGCP, mib, fpExcess) ==
    IF isGCP THEN _getGCPRangeSize(contentLen, mib, fpExcess)
             ELSE _getRangeSize(contentLen, mib)

_getRanges(contentLen, isGCP, mib, fpExcess) ==
    IF contentLen = 0
    THEN <<null>>
    ELSE RangesLoop(RangesLocals(RangesSize(contentLen, isGCP, mib, fpExcess)),
                    contentLen)

\* Size of a range as _getRangeAndPutMPUPartOnce computes it.
RangeSizeOf(range) == IF range # null THEN range.end - range.start + 1 ELSE 0

(***************************************************************************)
(* Planner inputs: lengths around the thresholds of the algorithm, each in *)
(* the finest unit that holds it in 32 bits.                               *)
(***************************************************************************)
\* Units per MiB of the three scales: bytes, KiB and MiB.
Bytes == 1024 * 1024
KiB == Bytes \div 1024
MiB == Bytes \div Bytes

Around(t) == { t + d : d \in (0 - Window)..Window }

\* byte-exact: 0, 1, and the 16 MiB / 32 MiB / 48 MiB boundaries
LengthsInBytes ==
    (0..(1 + Window)) \cup Around(16 * Bytes) \cup Around(32 * Bytes) \cup Around(48 * Bytes)
\* KiB-exact: 1000 parts of 16 MiB, of 32 MiB; 512 GiB (1024 parts of 512 MiB)
LengthsInKiB ==
    Around(16000 * KiB) \cup Around(32000 * KiB) \cup Around(512 * 1024 * KiB)
\* MiB-exact: 64 GiB, 500 GiB, 512 GiB, 1 TiB, 10000 parts of 512 MiB, 5 TiB
LengthsInMiB ==
    Around(64 * 1024) \cup Around(512000) \cup Around(512 * 1024) \cup
    Around(1024 * 1024) \cup Around(5120000) \cup
    { 5 * 1024 * 1024 - d : d \in 0..Window }

PlanInputs ==
    { [contentLen |-> l, mib |-> Bytes] : l \in LengthsInBytes } \cup
    { [contentLen |-> l, mib |-> KiB] : l \in LengthsInKiB } \cup
    { [contentLen |-> l, mib |-> MiB] : l \in LengthsInMiB }

PlanIdle == [phase |-> "idle"]

PlanInit ==
    \E inp \in PlanInputs, isGCP \in BOOLEAN :
        plan = [phase |-> "call", contentLen |-> inp.contentLen, mib |-> inp.mib,
                isGCP |-> isGCP, loc |-> RangesLocals(0), result |-> <<>>]

\* _getRanges up to the loop: the 0-byte return, or the choice of size.
PlanEnter ==
    /\ plan.phase = "call"
    /\ \E fpExcess \in {0, 1} :
         plan' = IF plan.contentLen = 0
                 THEN [plan EXCEPT !.phase = "returned", !.result = <<null>>]
                 ELSE [plan EXCEPT !.phase = "loop",
                          !.loc = RangesLocals(RangesSize(plan.contentLen, plan.isGCP,
                                                          plan.mib, fpExcess))]
    /\ UNCHANGED <<task, consumer, mirror, attempt, boot>>

PlanLoop ==
    /\ plan.phase = "loop"
    /\ RangesLoopCond(plan.loc, plan.contentLen)
    /\ plan' = [plan EXCEPT !.loc = RangesLoopBody(plan.loc, plan.contentLen)]
    /\ UNCHANGED <<task, consumer, mirror, attempt, boot>>

PlanReturn ==
    /\ plan.phase = "loop"
    /\ ~RangesLoopCond(plan.loc, plan.contentLen)
    /\ plan' = [plan EXCEPT !.phase = "returned",
                            !.result = RangesLoopExit(plan.loc, plan.contentLen)]
    /\ UNCHANGED <<task, consumer, mirror, attempt, boot>>

PlanNext == PlanEnter \/ PlanLoop \/ PlanReturn

(***************************************************************************)
(* REPLICATION TASK                                                        *)
(*                                                                         *)
(* JavaScript runs one callback at a time: an action of the model is the   *)
(* arrival of one gateway response (or stream event) together with all the *)
(* code that runs synchronously in its callback, down to the requests that *)
(* callback issues.  The handlers are operators from a task state to the   *)
(* next task state, named after the methods they model.                    *)
(***************************************************************************)

(***************************************************************************)
(* Errors.  An arsenal error (errors.X) answers err.X with true and has a  *)
(* numeric code; an AWS SDK error has a string code, a statusCode and the  *)
(* retryable flag.  flag is the X of err.X ("none" for SDK errors), code   *)
(* the string code ("none" for arsenal errors).  origin is the tag the     *)
(* code writes (err.origin); arose records where the error really arose    *)
(* ("source", "target", or "task" for errors the task creates itself) and  *)
(* is never read by the code.                                              *)
(***************************************************************************)
SdkError(code, statusCode, retryable, arose) ==
    [flag |-> "none", code |-> code, statusCode |-> statusCode,
     retryable |-> retryable, origin |-> undefined, arose |-> arose]

ArsenalError(type, arose) ==
    [flag |-> type, code |-> "none", statusCode |-> 0,
     retryable |-> FALSE, origin |-> undefined, arose |-> arose]

\* err.X || err.code === 'X'
HasName(err, name) == err.flag = name \/ err.code = name

SetOrigin(err, origin) == [err EXCEPT !.origin = origin]

\* What the source S3 client may answer to getBucketReplication.
PolicyErrors ==
    { SdkError("ServiceUnavailable", 503, TRUE, "source"),
      SdkError("InternalError", 500, FALSE, "source"),
      SdkError("AccessDenied", 403, FALSE, "source"),
      ArsenalError("NoSuchEntity", "source"),
      ArsenalError("BadRole", "source") }

\* What the metadata proxy may answer to getMetadata (tagged by the proxy).
MetadataErrors ==
    { SetOrigin(SdkError("ObjNotFound", 404, FALSE, "source"), "source"),
      SetOrigin(ArsenalError("ObjNotFound", "source"), "source"),
      SetOrigin(SdkError("AccessDenied", 403, FALSE, "source"), "source") }

\* What a source getObject may emit, on the request and on the stream.
GetObjectErrors ==
    { SdkError("ServiceUnavailable", 503, TRUE, "source"),
      SdkError("ObjNotFound", 404, FALSE, "source") }

\* What a destination operation may answer.
DestinationErrors ==
    { SdkError("ServiceUnavailable", 503, TRUE, "target"),
      SdkError("InternalError", 500, FALSE, "target"),
      SdkError("AccessDenied", 403, FALSE, "target") }

(***************************************************************************)
(* The entry.                                                              *)
(***************************************************************************)
Site == "site-a"
ObjectKey == <<"a", "b">>

\* String.prototype.startsWith on strings held as sequences of characters.
StartsWith(str, prefix) ==
    /\ Len(prefix) <= Len(str)
    /\ SubSeq(str, 1, Len(prefix)) = prefix

Location(partNumber, partSize, dataStoreETag) ==
    [partNumber |-> partNumber, partSize |-> partSize, dataStoreETag |-> dataStoreETag]

\* ObjectMD.getReducedLocations: adjacent locations of one part number are
\* coalesced into one location whose size is the sum of theirs.
RECURSIVE ReduceFrom(_, _, _)
ReduceFrom(locations, i, partTotal) ==
    IF i > Len(locations) THEN <<>>
    ELSE LET total == partTotal + locations[i].partSize
             nextPartNum == IF i < Len(locations)
                            THEN locations[i + 1].partNumber ELSE 0
         IN  IF locations[i].partNumber # nextPartNum
             THEN <<[locations[i] EXCEPT !.partSize = total]>>
                      \o ReduceFrom(locations, i + 1, 0)
             ELSE ReduceFrom(locations, i + 1, total)

getReducedLocations(e) == ReduceFrom(e.location, 1, 0)

\* Content lengths of the task's entries, in bytes: an empty object, a small
\* one, and an object of two ranges (16 MiB and one byte).
ContentLengths == { 0, 5, 16 * Bytes + 1 }

\* The location arrays an object of contentLength bytes may carry.
LocationsOf(contentLength) ==
    { <<>>,
      <<Location(1, contentLength, "etag1")>>,
      <<Location(1, contentLength, undefined)>> } \cup
    IF contentLength < 2 THEN {}
    ELSE { <<Location(1, contentLength - 1, "etag1"), Location(2, 1, "etag2")>>,
           <<Location(1, contentLength - 1, "etag1"), Location(1, 1, "etag1")>>,
           <<Location(1, contentLength - 1, "etag1"), Location(2, 1, undefined)>> }

ContentChoices ==
    { {"METADATA"},
      {"DATA", "METADATA"},
      {"DATA", "METADATA", "MPU"},
      {"METADATA", "PUT_TAGGING"},
      {"METADATA", "DELETE_TAGGING"},
      {"METADATA", "MPU", "PUT_TAGGING"},
      {"METADATA", "PUT_TAGGING", "DELETE_TAGGING"} }

EndpointTypes == { "aws_s3", "gcp", "azure" }

\* The endpoint type only reaches the MPU path, the location array only the
\* data path and the MPU path's entries: the other entries take one value.
Entries ==
    { e \in [ isNFS : BOOLEAN, isDeleteMarker : BOOLEAN, content : ContentChoices,
              contentLength : ContentLengths, endpointType : EndpointTypes,
              location : UNION { LocationsOf(l) : l \in ContentLengths } ] :
        /\ e.location \in LocationsOf(e.contentLength)
        /\ "MPU" \notin e.content => e.endpointType = "aws_s3"
        /\ (e.isDeleteMarker \/ e.content \cap {"DATA", "MPU"} = {})
               => e.location = <<>> /\ e.contentLength = 0 }

(***************************************************************************)
(* Task state.                                                             *)
(***************************************************************************)
Operations ==
    { "getBucketReplication", "getMetadata", "getObject",
      "multipleBackendInitiateMPU", "multipleBackendPutMPUPart",
      "multipleBackendCompleteMPU", "multipleBackendAbortMPU",
      "multipleBackendPutObject", "multipleBackendDeleteObject",
      "multipleBackendPutObjectTagging", "multipleBackendDeleteObjectTagging" }

unset == [unset |-> TRUE]

\* The gateways' budget of error answers to part transfers: Unlimited, or
\* the number left.
Unlimited == 0 - 1
MayFail(t) == t.faultsLeft # 0
Fault(t) == IF t.faultsLeft = Unlimited THEN t ELSE [t EXCEPT !.faultsLeft = @ - 1]
Answered(t, err) == IF err # null THEN Fault(t) ELSE t
PartErrors(t, errs) == IF MayFail(t) THEN errs ELSE {}

\* Strings the code transforms are held as sequences of characters.
HexDigits ==
    { "0", "1", "2", "3", "4", "5", "6", "7", "8", "9", "a", "b", "c", "d", "e", "f" }

\* What uuid() may return: groups of hex digits separated by dashes (the
\* groups are shortened).
Uuids ==
    { <<"3", "e", "-", "4", "a", "-", "b", "0">>,
      <<"f", "f", "-", "4", "1", "-", "9", "c">> }

\* The upload ids a destination may return: opaque strings.
UploadIds == { <<"u", "p", "-", "1">>, <<"7", "G", "_", "x">> }

\* No upload id yet (the code's variable is not bound or is undefined).
NoUploadId == <<>>

\* str.replace(/-/g, '')
RECURSIVE RemoveDashes(_)
RemoveDashes(str) ==
    IF str = <<>> THEN <<>>
    ELSE IF Head(str) = "-" THEN RemoveDashes(Tail(str))
    ELSE <<Head(str)>> \o RemoveDashes(Tail(str))

TaskIdle == [pc |-> "idle"]

NewTask(e) ==
    [ entry |-> e,
      pc |-> "start",
      nbRetries |-> 0,          \* of the retry wrapper of the sequential call in flight
      uploadId |-> NoUploadId,  \* the upload session
      uuid |-> <<>>,            \* what uuid() returns when the task calls it
      immediate |-> NoUploadId, \* the upload id the pending setImmediate hands over
      initiateMPUData |-> unset,    \* the data of the init-MPU response
      mode |-> "none",          \* "mpu" or "data" once parts are transferred
      parts |-> <<>>,           \* per part: its attempt and retry state
      results |-> <<>>,         \* the results array of async.timesLimit
      completeMPUData |-> unset,    \* the array _completeMPU serialises as Body
      limitDone |-> FALSE,      \* timesLimit/mapLimit called its final callback
      siteVersionId |-> IF e.content \cap {"PUT_TAGGING", "DELETE_TAGGING"} # {}
                        THEN "v0" ELSE undefined,
      destHost |-> [picked |-> 0, bound |-> 0],
      \* environment: error answers left for the part transfers
      faultsLeft |-> Unlimited,
      \* history
      reqs |-> [op \in Operations |-> 0],
      putMPUParts |-> {},       \* PartNumber and ContentLength of the part puts
      putObjects |-> {},        \* ContentLength and Body of the object puts
      sourceMD |-> unset,       \* the metadata the dispatch received
      metrics |-> [queuedOps |-> 0, queuedBytes |-> 0,
                   completedOps |-> 0, completedBytes |-> 0],
      topic |-> EmptyBag,       \* metrics events published and not yet consumed
      published |-> <<>>,
      doneCalls |-> <<>>,
      outcome |-> unset,
      partErrors |-> {} ]       \* parts whose transfer ended in an error

\* A request is handed to a gateway.
Issue(t, op) == [t EXCEPT !.reqs[op] = @ + 1]

\* The extension the task's metrics events name.
metricsExtension == "crr"

\* getExtMetrics(site, bytes, entry): one operation of that many bytes on the
\* site.
getExtMetrics(site, bytes) == [site |-> site, ops |-> 1, bytes |-> bytes]

\* The metrics record the producer sends for extMetrics.
MetricsRecord(extMetrics, type, extension) ==
    [type |-> type, site |-> extMetrics.site, ops |-> extMetrics.ops,
     bytes |-> extMetrics.bytes, extension |-> extension]

\* mProducer.publishMetrics(getExtMetrics(site, bytes, entry), type, ...)
publishMetrics(t, type, bytes) ==
    LET data == MetricsRecord(getExtMetrics(Site, bytes), type, metricsExtension)
        t1 == [t EXCEPT !.topic = @ (+) SetToBag({data})]
    IN  IF type = "queued"
        THEN [t1 EXCEPT !.metrics.queuedOps = @ + 1, !.metrics.queuedBytes = @ + bytes]
        ELSE [t1 EXCEPT !.metrics.completedOps = @ + 1, !.metrics.completedBytes = @ + bytes]

\* An uncaught exception: nothing of the task runs any more, done is never
\* invoked.
Throw(t) == [t EXCEPT !.pc = "thrown"]

\* BackbeatTask.retry's decision after a failed attempt.
ShouldRetry(err, nbRetries) == err.retryable /\ nbRetries < MaxRetries

\* A faulty outcome: the InvalidObjectState branch is missing.
OutcomeOf_NoInvalidObjectState(err) ==
    IF err = null
    THEN [status |-> "COMPLETED", done |-> [err |-> null, committable |-> FALSE]]
    ELSE IF \/ err.flag = "BadRole"
            \/ /\ err.origin = "source"
               /\ HasName(err, "NoSuchEntity") \/ HasName(err, "AccessDenied")
    THEN [status |-> "none", done |-> [err |-> null, committable |-> TRUE]]
    ELSE IF HasName(err, "ObjNotFound")
    THEN [status |-> "none", done |-> [err |-> null, committable |-> TRUE]]
    ELSE [status |-> "FAILED", done |-> [err |-> null, committable |-> FALSE]]

\* A faulty outcome: the branch of the permanent source errors is missing.
OutcomeOf_NoPermanentBranch(err) ==
    IF err = null
    THEN [status |-> "COMPLETED", done |-> [err |-> null, committable |-> FALSE]]
    ELSE IF HasName(err, "ObjNotFound")
    THEN [status |-> "none", done |-> [err |-> null, committable |-> TRUE]]
    ELSE IF HasName(err, "InvalidObjectState")
    THEN [status |-> "none", done |-> [err |-> null, committable |-> TRUE]]
    ELSE [status |-> "FAILED", done |-> [err |-> null, committable |-> FALSE]]

(***************************************************************************)
(* _handleReplicationOutcome                                               *)
(***************************************************************************)
\* The branch _handleReplicationOutcome takes: the status it publishes
\* ("none" when it publishes nothing) and the arguments it gives done.
OutcomeOf(err) ==
    IF err = null
    THEN [status |-> "COMPLETED", done |-> [err |-> null, committable |-> FALSE]]
    ELSE IF \/ err.flag = "BadRole"
            \/ /\ err.origin = "source"
               /\ HasName(err, "NoSuchEntity") \/ HasName(err, "AccessDenied")
    THEN [status |-> "none", done |-> [err |-> null, committable |-> TRUE]]
    ELSE IF HasName(err, "ObjNotFound")
    THEN [status |-> "none", done |-> [err |-> null, committable |-> TRUE]]
    ELSE IF HasName(err, "InvalidObjectState")
    THEN [status |-> "none", done |-> [err |-> null, committable |-> TRUE]]
    ELSE [status |-> "FAILED", done |-> [err |-> null, committable |-> FALSE]]

_publishReplicationStatus(t, status) ==
    [t EXCEPT !.published = Append(@, [site |-> Site, status |-> status])]

_handleReplicationOutcome(t, err) ==
    LET o == OutcomeOf(err)
        t1 == IF o.status = "none" THEN t ELSE _publishReplicationStatus(t, o.status)
    IN  [t1 EXCEPT !.outcome = err,
                   !.doneCalls = Append(@, o.done),
                   !.pc = "done"]

\* The final callback of the async.waterfall of _processReplicationEntry.
\* Every branch reaches it through a once-wrapper or an async final callback,
\* which fire the first time only.
WaterfallEnd(t, err) ==
    IF t.pc \in {"done", "thrown"} THEN t ELSE _handleReplicationOutcome(t, err)

(***************************************************************************)
(* _checkObjectState                                                       *)
(***************************************************************************)
\* _fetchSourceMD(sourceEntry, log, cb) starts by calling
\* sourceEntry.getBucket(): when its first argument is not an entry the call
\* throws a TypeError before any request is made.
_fetchSourceMD(t, firstArgIsEntry) ==
    IF firstArgIsEntry
    THEN [Issue(t, "getMetadata") EXCEPT !.pc = "getMetadata"]
    ELSE Throw(t)

\* _checkObjectState passes (bucket, objectKey, encodedVersionId, log, cb) to
\* the three-parameter _fetchSourceMD: the first argument is the bucket name.
_checkObjectState(t) == _fetchSourceMD(t, FALSE)

\* _checkMPUState begins with _checkObjectState.
_checkMPUState(t) == _checkObjectState(t)

(***************************************************************************)
(* Parts: the ranges of an MPU (_completeRangedMPU) or the reduced         *)
(* locations of the data path (_getAndPutData), transferred in parallel.   *)
(*   st      "waiting": not started; "running": an attempt is in flight    *)
(*           and its once-wrapped callback has not fired; "ok"/"failed":   *)
(*           the part's retry wrapper has called back                      *)
(*   src     the running attempt has a source getObject request            *)
(*   tries   nbRetries of the part's retry wrapper                         *)
(*   late    destination requests still in flight whose attempt's callback *)
(*           has already fired (on a source error)                         *)
(*   data    the data the attempt's callback received (doneOnce(null, data))*)
(***************************************************************************)
NewPart == [st |-> "waiting", src |-> FALSE, tries |-> 0, late |-> 0, data |-> unset]

IsGCP(t) == t.entry.endpointType = "gcp"
IsAzure(t) == t.entry.endpointType = "azure"

\* The elements the task iterates over: the ranges, the reduced locations,
\* or the single null part of a metadata-only put.
PartList(t) ==
    IF t.mode = "mpu"
    THEN _getRanges(t.entry.contentLength, IsGCP(t), Bytes, 0)
    ELSE IF getReducedLocations(t.entry) = <<>> THEN <<null>>
         ELSE getReducedLocations(t.entry)

\* The size an attempt transfers.
PartSizeOf(t, p) ==
    LET part == PartList(t)[p]
    IN  IF t.mode = "mpu" THEN RangeSizeOf(part)
        ELSE IF part # null THEN part.partSize ELSE t.entry.contentLength

\* The parameters of multipleBackendPutMPUPart in _putMPUPart.
PutMPUPartParams(partNumber, size) == [PartNumber |-> partNumber, ContentLength |-> size]

\* A faulty attempt: the source is read even for an empty part.
_getRangeAndPutMPUPartOnce_AlwaysReading(t, p) ==
    LET size == PartSizeOf(t, p)
        t2 == Issue(Issue(t, "getObject"), "multipleBackendPutMPUPart")
    IN  [t2 EXCEPT !.parts[p].st = "running", !.parts[p].src = TRUE,
                   !.putMPUParts = @ \cup {PutMPUPartParams(p, size)}]

\* _getRangeAndPutMPUPartOnce followed by _putMPUPart up to destReq.send.
_getRangeAndPutMPUPartOnce(t, p) ==
    LET size == PartSizeOf(t, p)
        t1 == IF size # 0 THEN Issue(t, "getObject") ELSE t
        t2 == Issue(t1, "multipleBackendPutMPUPart")
    IN  [t2 EXCEPT !.parts[p].st = "running", !.parts[p].src = (size # 0),
                   !.putMPUParts = @ \cup {PutMPUPartParams(p, size)}]

\* The parameters of multipleBackendPutObject in _sendMultipleBackendPutObject:
\* Body is incomingMsg, the source stream, or null when nothing was read.
PutObjectParams(size, incomingMsg) == [ContentLength |-> size, Body |-> incomingMsg]

\* A faulty attempt: the source is never read and the put has no body.
_getAndPutPartOnce_NeverReading(t, p) ==
    IF t.entry.isNFS
    THEN _checkObjectState(t)
    ELSE [Issue(t, "multipleBackendPutObject")
             EXCEPT !.parts[p].st = "running", !.parts[p].src = FALSE,
                    !.putObjects = @ \cup {PutObjectParams(PartSizeOf(t, p), "null")}]

\* _getAndPutPartOnce up to destReq.send of _sendMultipleBackendPutObject.
_getAndPutPartOnce(t, p) ==
    LET size == PartSizeOf(t, p)
        t1 == IF size # 0 THEN Issue(t, "getObject") ELSE t
        incomingMsg == IF size # 0 THEN "stream" ELSE "null"
    IN  IF t.entry.isNFS
        THEN _checkObjectState(t1)
        ELSE [Issue(t1, "multipleBackendPutObject")
                 EXCEPT !.parts[p].st = "running", !.parts[p].src = (size # 0),
                        !.putObjects = @ \cup {PutObjectParams(size, incomingMsg)}]

StartAttempt(t, p) ==
    IF t.mode = "mpu" THEN _getRangeAndPutMPUPartOnce(t, p) ELSE _getAndPutPartOnce(t, p)

\* _completeMPU up to destReq.send; data is the list of parts it sends.
_completeMPU(t, data) ==
    [Issue(t, "multipleBackendCompleteMPU")
        EXCEPT !.pc = "completeMPU", !.completeMPUData = data]

\* A faulty final callback: the upload is completed whatever the parts did.
_completeRangedMPUFinal_IgnoringErr(t, err) == _completeMPU(t, t.results)

\* The final callback of async.timesLimit in _completeRangedMPU; the data it
\* receives is the results array.
_completeRangedMPUFinal(t, err) ==
    IF err # null
    THEN WaterfallEnd(t, SetOrigin(err, "source"))
    ELSE _completeMPU(t, t.results)

\* The final callback of the iteration: of timesLimit on the MPU path, of
\* mapLimit (or of the single _getAndPutPart) on the data path.
LimitFinal(t, err) ==
    IF t.mode = "mpu" THEN _completeRangedMPUFinal(t, err) ELSE WaterfallEnd(t, err)

\* The lowest part not yet started, 0 when there is none.
NextWaiting(t) ==
    IF \E q \in DOMAIN t.parts : t.parts[q].st = "waiting"
    THEN CHOOSE q \in DOMAIN t.parts :
            /\ t.parts[q].st = "waiting"
            /\ \A r \in DOMAIN t.parts : t.parts[r].st = "waiting" => q <= r
    ELSE 0

\* async's iterateeCallback: an error ends the iteration at once (the final
\* callback fires only once, and nothing more is started); a success fires
\* the final callback when every part has succeeded, and else starts the
\* next part.
LimitNext(t, p, err) ==
    LET t1 == IF err # null
              THEN [t EXCEPT !.parts[p].st = "failed", !.partErrors = @ \cup {p}]
              ELSE [t EXCEPT !.parts[p].st = "ok"]
    IN  IF t1.limitDone THEN t1
        ELSE IF err # null THEN LimitFinal([t1 EXCEPT !.limitDone = TRUE], err)
        ELSE IF \A q \in DOMAIN t1.parts : t1.parts[q].st = "ok"
        THEN LimitFinal([t1 EXCEPT !.limitDone = TRUE], null)
        ELSE IF NextWaiting(t1) # 0 THEN StartAttempt(t1, NextWaiting(t1))
        ELSE t1

\* The element of the part list _completeRangedMPU builds from the data of a
\* part's response.
PartResult(t, data) ==
    IF IsAzure(t)
    THEN [PartNumber |-> <<data.partNumber>>, ETag |-> <<data.ETag>>,
          NumberSubParts |-> <<data.numberSubParts>>]
    ELSE [PartNumber |-> <<data.partNumber>>, ETag |-> <<data.ETag>>]

\* A faulty collection: the results are kept in the order they arrive.
TimesLimitResult_InArrivalOrder(t, p, res) ==
    LET slot == CHOOSE n \in DOMAIN t.results :
                    /\ t.results[n] = unset
                    /\ \A m \in DOMAIN t.results : t.results[m] = unset => n <= m
    IN  [t EXCEPT !.results[slot] = res]

\* async.timesLimit keeps the result of iteration n (part n + 1) at index n.
TimesLimitResult(t, p, res) == [t EXCEPT !.results[p] = res]

\* The callback _completeRangedMPU gives _getRangeAndPutMPUPart.
_completeRangedMPUPart(t, p, err) ==
    IF t.entry.isNFS THEN _checkMPUState(t)
    ELSE IF err # null THEN LimitNext(t, p, err)
    ELSE LimitNext(TimesLimitResult(t, p, PartResult(t, t.parts[p].data)), p, null)

\* The callback of a part's retry wrapper.
PartCallback(t, p, err) ==
    IF t.mode = "mpu" THEN _completeRangedMPUPart(t, p, err) ELSE LimitNext(t, p, err)

\* onRetryFunc of _getAndPutPart; _getRangeAndPutMPUPart has none.
onRetryFunc(t, err) ==
    IF t.mode = "data" /\ err.origin = "target"
    THEN [t EXCEPT !.destHost = [picked |-> 1 - @.picked, bound |-> 1 - @.picked]]
    ELSE t

\* BackbeatTask.retry around one part: retry a retryable error, else call back.
PartRetry(t, p, err) ==
    IF err # null /\ ShouldRetry(err, t.parts[p].tries)
    THEN StartAttempt([onRetryFunc(t, err) EXCEPT !.parts[p].tries = @ + 1], p)
    ELSE PartCallback(t, p, err)

\* The attempt's once-wrapped callback fires on a source error while the
\* destination request is still in flight.
SourceFailed(t, p, err) ==
    PartRetry([t EXCEPT !.parts[p].late = @ + 1, !.parts[p].st = "called"], p, err)

\* sourceReq.on('error')
OnSourceRequestError(t, p, err) == SourceFailed(t, p, SetOrigin(err, "source"))

\* incomingMsg.on('error')
OnSourceStreamError(t, p, err) ==
    IF err.statusCode = 404
    THEN SourceFailed(t, p, ArsenalError("ObjNotFound", "source"))
    ELSE SourceFailed(t, p, SetOrigin(err, "source"))

\* A faulty setter: the version id of the response is dropped.
setReplicationSiteDataStoreVersionId_Dropped(t, versionId) == t

setReplicationSiteDataStoreVersionId(t, versionId) == [t EXCEPT !.siteVersionId = versionId]

\* What the callback of destReq.send does before it calls doneOnce: in
\* _putMPUPart, and in _sendMultipleBackendPutObject.
OnPartPut(t, p, err, data) ==
    IF err # null THEN t
    ELSE IF t.mode = "mpu" THEN publishMetrics(t, "completed", PartSizeOf(t, p))
    ELSE publishMetrics(setReplicationSiteDataStoreVersionId(t, data.versionId),
                        "completed", PartSizeOf(t, p))

\* The destination answers the running attempt: doneOnce fires.
OnPartPutResponse(t, p, err, data) ==
    PartRetry([OnPartPut(t, p, err, data)
                  EXCEPT !.parts[p].st = "called",
                         !.parts[p].data = IF err # null THEN unset ELSE data],
              p, IF err # null THEN SetOrigin(err, "source") ELSE null)

\* The destination answers an attempt whose doneOnce has already fired.
OnLatePartPutResponse(t, p, err, data) ==
    [OnPartPut(t, p, err, data) EXCEPT !.parts[p].late = @ - 1]

\* A faulty start: every part is started at once.
RECURSIVE StartFrom_WithoutLimit(_, _)
StartFrom_WithoutLimit(t, p) ==
    IF p > Len(t.parts) \/ t.pc = "thrown" THEN t
    ELSE StartFrom_WithoutLimit(StartAttempt(t, p), p + 1)

\* Start the iteration: the first MPU_CONC_LIMIT parts, in order; a throw
\* ends it.
RECURSIVE StartFrom(_, _)
StartFrom(t, p) ==
    IF p > Len(t.parts) \/ p > MPU_CONC_LIMIT \/ t.pc = "thrown" THEN t
    ELSE StartFrom(StartAttempt(t, p), p + 1)

StartParts(t, mode) ==
    LET t1 == [t EXCEPT !.mode = mode, !.pc = "parts"]
    IN  StartFrom([t1 EXCEPT !.parts = [q \in 1..Len(PartList(t1)) |-> NewPart],
                             !.results = [q \in 1..Len(PartList(t1)) |-> unset]], 1)

(***************************************************************************)
(* The branches of _processReplicationEntry.                               *)
(***************************************************************************)
\* _putDeleteMarkerOnce up to destReq.send of _sendMultipleBackendDeleteObject.
_putDeleteMarkerOnce(t) ==
    IF t.entry.isNFS
    THEN _checkObjectState(t)
    ELSE [Issue(t, "multipleBackendDeleteObject") EXCEPT !.pc = "deleteObject"]

\* A faulty _initiateMPU: the uuid is used as it is.
_initiateMPU_KeepingDashes(t) ==
    IF IsAzure(t)
    THEN [t EXCEPT !.pc = "setImmediate", !.immediate = t.uuid]
    ELSE [Issue(t, "multipleBackendInitiateMPU") EXCEPT !.pc = "initiateMPU"]

\* _initiateMPU: for azure the upload id is generated locally and handed over
\* by setImmediate; otherwise the request is sent.
_initiateMPU(t) ==
    IF IsAzure(t)
    THEN [t EXCEPT !.pc = "setImmediate", !.immediate = RemoveDashes(t.uuid)]
    ELSE [Issue(t, "multipleBackendInitiateMPU") EXCEPT !.pc = "initiateMPU"]

\* _getAndPutMultipartUploadOnce
_getAndPutMultipartUploadOnce(t) ==
    IF t.entry.isNFS THEN _checkObjectState(t) ELSE _initiateMPU(t)

\* The callback _sendInitiateMPU gives _initiateMPU.  _getAndPutMultipartUpload
\* is called with (sourceEntry, log, next) but declares (sourceEntry, part,
\* uploadId, log, cb): the callback the attempt receives as cb is the
\* waterfall's next, so an error ends the task without passing through the
\* retry wrapper.
_sendInitiateMPU(t, err, id) ==
    IF err # null
    THEN WaterfallEnd(t, err)
    ELSE StartParts(publishMetrics([t EXCEPT !.uploadId = id], "queued",
                                   t.entry.contentLength), "mpu")

_putObjectTaggingOnce(t) ==
    [Issue(t, "multipleBackendPutObjectTagging") EXCEPT !.pc = "putObjectTagging"]

_deleteObjectTaggingOnce(t) ==
    [Issue(t, "multipleBackendDeleteObjectTagging") EXCEPT !.pc = "deleteObjectTagging"]

_getAndPutData(t) ==
    IF \E i \in DOMAIN t.entry.location : t.entry.location[i].dataStoreETag = undefined
    THEN WaterfallEnd(t, ArsenalError("InternalError", "task"))
    ELSE IF getReducedLocations(t.entry) = <<>>
    THEN StartParts(t, "data")
    ELSE StartParts(publishMetrics(t, "queued", t.entry.contentLength), "data")

\* A faulty dispatch: delete tagging is looked at before put tagging.
Dispatch_DeleteTaggingFirst(t0, sourceMD) ==
    LET t == [t0 EXCEPT !.sourceMD = sourceMD]
    IN  IF t.entry.isDeleteMarker THEN _putDeleteMarkerOnce(t)
        ELSE IF sourceMD.siteStatus = "COMPLETED" /\ "DATA" \in t.entry.content
        THEN WaterfallEnd(t, ArsenalError("InvalidObjectState", "task"))
        ELSE IF "MPU" \in t.entry.content THEN _getAndPutMultipartUploadOnce(t)
        ELSE IF "DELETE_TAGGING" \in t.entry.content THEN _deleteObjectTaggingOnce(t)
        ELSE IF "PUT_TAGGING" \in t.entry.content THEN _putObjectTaggingOnce(t)
        ELSE _getAndPutData(t)

\* A faulty dispatch: the site status of the refreshed metadata is ignored.
Dispatch_IgnoringSiteStatus(t0, sourceMD) ==
    LET t == [t0 EXCEPT !.sourceMD = sourceMD]
    IN  IF t.entry.isDeleteMarker THEN _putDeleteMarkerOnce(t)
        ELSE IF "MPU" \in t.entry.content THEN _getAndPutMultipartUploadOnce(t)
        ELSE IF "PUT_TAGGING" \in t.entry.content THEN _putObjectTaggingOnce(t)
        ELSE IF "DELETE_TAGGING" \in t.entry.content THEN _deleteObjectTaggingOnce(t)
        ELSE _getAndPutData(t)

\* The third task of the waterfall; t0 is the task when sourceMD arrives.
Dispatch(t0, sourceMD) ==
    LET t == [t0 EXCEPT !.sourceMD = sourceMD]
    IN  IF t.entry.isDeleteMarker THEN _putDeleteMarkerOnce(t)
        ELSE IF sourceMD.siteStatus = "COMPLETED" /\ "DATA" \in t.entry.content
        THEN WaterfallEnd(t, ArsenalError("InvalidObjectState", "task"))
        ELSE IF "MPU" \in t.entry.content THEN _getAndPutMultipartUploadOnce(t)
        ELSE IF "PUT_TAGGING" \in t.entry.content THEN _putObjectTaggingOnce(t)
        ELSE IF "DELETE_TAGGING" \in t.entry.content THEN _deleteObjectTaggingOnce(t)
        ELSE _getAndPutData(t)

\* The second task of the waterfall: the callback given to _fetchSourceMD.
\* parsed is false when ObjectMD.createFromBlob reports an error.
OnSourceMD(t, err, parsed, sourceMD) ==
    IF err # null /\ err.code = "ObjNotFound" /\ t.entry.isNFS
           /\ ~t.entry.isDeleteMarker
    THEN WaterfallEnd(t, ArsenalError("InvalidObjectState", "task"))
    ELSE IF err # null THEN WaterfallEnd(t, err)
    ELSE IF ~parsed THEN WaterfallEnd(t, ArsenalError("InternalError", "task"))
    ELSE Dispatch(t, sourceMD)

\* The callback of getBucketReplication.
_getBucketReplicationConfigurationOnce(err, rules) ==
    IF err # null THEN SetOrigin(err, "source")
    ELSE IF ~ \E i \in DOMAIN rules :
                /\ rules[i].Status = "Enabled"
                /\ StartsWith(ObjectKey, rules[i].Prefix)
    THEN ArsenalError("PreconditionFailed", "task")
    ELSE null

\* BackbeatTask.retry around a sequential call whose attempt is again(t).
Retry(t, err, again) ==
    IF ShouldRetry(err, t.nbRetries)
    THEN [again EXCEPT !.nbRetries = t.nbRetries + 1]
    ELSE WaterfallEnd(t, err)

(***************************************************************************)
(* What the gateways may answer.                                           *)
(***************************************************************************)
Rules ==
    [ Status : {"Enabled", "Disabled"}, Prefix : { <<>>, <<"a">>, <<"b">> } ]
RuleLists == { <<>> } \cup { <<r>> : r \in Rules } \cup
             { <<r1, r2>> : r1 \in Rules, r2 \in Rules }

SourceMDs == [ siteStatus : {"PENDING", "COMPLETED"} ]

Success == [versionId |-> "v1"]

\* The ETag the destination gives part p.
ETagOf(p) == <<"etag", p>>

\* The data of a successful answer to the put of part p: of an MPU part (the
\* destination names the part it stored), or of an object.
PartPutData(t, p) ==
    IF t.mode = "mpu"
    THEN [partNumber |-> p, ETag |-> ETagOf(p), numberSubParts |-> 1]
    ELSE Success

(***************************************************************************)
(* Actions of the task.                                                    *)
(***************************************************************************)
\* The values uuid() may give the task of entry e (only an azure MPU calls it).
UuidsFor(e) ==
    IF e.endpointType = "azure" THEN Uuids ELSE { CHOOSE u \in Uuids : TRUE }

TaskInit ==
    task \in UNION { { [NewTask(e) EXCEPT !.uuid = u] : u \in UuidsFor(e) } :
                     e \in Entries }

\* _processReplicationEntry up to the first getBucketReplication request.
ProcessReplicationEntry ==
    /\ task.pc = "start"
    /\ task' = [Issue(task, "getBucketReplication") EXCEPT !.pc = "getBucketReplication"]
    /\ UNCHANGED <<plan, consumer, mirror, attempt, boot>>

GetBucketReplicationResponse ==
    /\ task.pc = "getBucketReplication"
    /\ \E err \in PolicyErrors \cup {null}, rules \in RuleLists :
         LET res == _getBucketReplicationConfigurationOnce(err, rules)
         IN  task' = IF res # null
                     THEN Retry(task, res, Issue(task, "getBucketReplication"))
                     ELSE [_fetchSourceMD(task, TRUE) EXCEPT !.nbRetries = 0]
    /\ UNCHANGED <<plan, consumer, mirror, attempt, boot>>

GetMetadataResponse ==
    /\ task.pc = "getMetadata"
    /\ \E err \in MetadataErrors \cup {null}, parsed \in BOOLEAN, sourceMD \in SourceMDs :
         task' = OnSourceMD(task, err, parsed, sourceMD)
    /\ UNCHANGED <<plan, consumer, mirror, attempt, boot>>

DeleteObjectResponse ==
    /\ task.pc = "deleteObject"
    /\ \E err \in DestinationErrors \cup {null} :
         task' = IF err # null
                 THEN Retry(task, SetOrigin(err, "source"), _putDeleteMarkerOnce(task))
                 ELSE WaterfallEnd(task, null)
    /\ UNCHANGED <<plan, consumer, mirror, attempt, boot>>

InitiateMPUResponse ==
    /\ task.pc = "initiateMPU"
    /\ \E err \in DestinationErrors \cup {null}, data \in [uploadId : UploadIds] :
         task' = IF err # null
                 THEN _sendInitiateMPU(task, SetOrigin(err, "source"), NoUploadId)
                 ELSE _sendInitiateMPU([task EXCEPT !.initiateMPUData = data],
                                       null, data.uploadId)
    /\ UNCHANGED <<plan, consumer, mirror, attempt, boot>>

\* The setImmediate callback of _initiateMPU (azure).
InitiateMPUImmediate ==
    /\ task.pc = "setImmediate"
    /\ task' = _sendInitiateMPU(task, null, task.immediate)
    /\ UNCHANGED <<plan, consumer, mirror, attempt, boot>>

SourceRequestError ==
    /\ task.pc \notin {"idle", "thrown"}
    /\ \E p \in DOMAIN task.parts, err \in PartErrors(task, GetObjectErrors) :
         /\ task.parts[p].st = "running" /\ task.parts[p].src
         /\ task' = OnSourceRequestError(Answered(task, err), p, err)
    /\ UNCHANGED <<plan, consumer, mirror, attempt, boot>>

SourceStreamError ==
    /\ task.pc \notin {"idle", "thrown"}
    /\ \E p \in DOMAIN task.parts, err \in PartErrors(task, GetObjectErrors) :
         /\ task.parts[p].st = "running" /\ task.parts[p].src
         /\ task' = OnSourceStreamError(Answered(task, err), p, err)
    /\ UNCHANGED <<plan, consumer, mirror, attempt, boot>>

PartPutResponse ==
    /\ task.pc \notin {"idle", "thrown"}
    /\ \E p \in DOMAIN task.parts,
          err \in PartErrors(task, DestinationErrors) \cup {null} :
         /\ task.parts[p].st = "running"
         /\ task' = OnPartPutResponse(Answered(task, err), p, err, PartPutData(task, p))
    /\ UNCHANGED <<plan, consumer, mirror, attempt, boot>>

LatePartPutResponse ==
    /\ task.pc \notin {"idle", "thrown"}
    /\ \E p \in DOMAIN task.parts,
          err \in PartErrors(task, DestinationErrors) \cup {null} :
         /\ task.parts[p].late > 0
         /\ task' = OnLatePartPutResponse(Answered(task, err), p, err,
                                           PartPutData(task, p))
    /\ UNCHANGED <<plan, consumer, mirror, attempt, boot>>

CompleteMPUResponse ==
    /\ task.pc = "completeMPU"
    /\ \E err \in DestinationErrors \cup {null} :
         task' = IF err # null
                 THEN WaterfallEnd(task, SetOrigin(err, "source"))
                 ELSE WaterfallEnd(
                          setReplicationSiteDataStoreVersionId(task, Success.versionId),
                          null)
    /\ UNCHANGED <<plan, consumer, mirror, attempt, boot>>

PutObjectTaggingResponse ==
    /\ task.pc = "putObjectTagging"
    /\ \E err \in DestinationErrors \cup {null} :
         task' = IF err # null
                 THEN Retry(task, err, _putObjectTaggingOnce(task))
                 ELSE WaterfallEnd(
                          setReplicationSiteDataStoreVersionId(task, Success.versionId),
                          null)
    /\ UNCHANGED <<plan, consumer, mirror, attempt, boot>>

DeleteObjectTaggingResponse ==
    /\ task.pc = "deleteObjectTagging"
    /\ \E err \in DestinationErrors \cup {null} :
         task' = IF err # null
                 THEN Retry(task, err, _deleteObjectTaggingOnce(task))
                 ELSE WaterfallEnd(
                          setReplicationSiteDataStoreVersionId(task, Success.versionId),
                          null)
    /\ UNCHANGED <<plan, consumer, mirror, attempt, boot>>

TaskNext ==
    \/ ProcessReplicationEntry
    \/ GetBucketReplicationResponse
    \/ GetMetadataResponse
    \/ DeleteObjectResponse
    \/ InitiateMPUResponse
    \/ InitiateMPUImmediate
    \/ SourceRequestError
    \/ SourceStreamError
    \/ PartPutResponse
    \/ LatePartPutResponse
    \/ CompleteMPUResponse
    \/ PutObjectTaggingResponse
    \/ DeleteObjectTaggingResponse

(***************************************************************************)
(* ONE ATTEMPT OF A PART TRANSFER                                          *)
(*                                                                         *)
(* _getRangeAndPutMPUPartOnce with _putMPUPart, and _getAndPutPartOnce     *)
(* with _sendMultipleBackendPutObject, followed event by event: the source *)
(* request and its stream may each emit an error, the destination answers, *)
(* in any order, and every handler ends in doneOnce = jsutil.once(done).   *)
(***************************************************************************)
AttemptIdle == [pc |-> "idle"]

AttemptMethods == { "_getRangeAndPutMPUPartOnce", "_getAndPutPartOnce" }

\* The sizes of the part an attempt transfers: none, one byte, a few.
AttemptSizes == { 0, 1, 5 }

NewAttempt(method, isNFS, size) ==
    [ method |-> method, isNFS |-> isNFS, size |-> size,
      pc |-> "created",
      pending |-> {},       \* the events that may still arrive
      called |-> FALSE,     \* jsutil.once: the wrapped function has been called
      completedBytes |-> 0, \* bytes of the 'completed' events published
      siteVersionId |-> undefined,
      \* history
      first |-> unset,      \* the first outcome to arrive
      doneArgs |-> <<>> ]   \* the arguments of each invocation of done

\* The attempt up to destReq.send: the source is read unless the part is
\* empty.  _getAndPutPartOnce of an NFS entry calls _checkObjectState after
\* attaching the source handlers; it throws, so the put is never sent.
AttemptBegin(att) ==
    LET source == IF att.size # 0 THEN {"request", "stream"} ELSE {}
    IN  IF att.method = "_getAndPutPartOnce" /\ att.isNFS
        THEN [att EXCEPT !.pc = "thrown", !.pending = source]
        ELSE [att EXCEPT !.pc = "running", !.pending = source \cup {"response"}]

\* The callback the retry wrapper gave the attempt.
done(att, err, data) ==
    [att EXCEPT !.doneArgs = Append(@, [err |-> err, data |-> data])]

\* A faulty wrapper: every invocation reaches done.
doneOnce_EveryTime(att, err, data) == done([att EXCEPT !.called = TRUE], err, data)

\* doneOnce = jsutil.once(done): only the first invocation reaches done.
doneOnce(att, err, data) ==
    IF att.called THEN att ELSE done([att EXCEPT !.called = TRUE], err, data)

\* What each handler hands to doneOnce.
RequestErrorOutcome(err) == [err |-> SetOrigin(err, "source"), data |-> unset]

StreamErrorOutcome(err) ==
    IF err.statusCode = 404
    THEN [err |-> ArsenalError("ObjNotFound", "source"), data |-> unset]
    ELSE [err |-> SetOrigin(err, "source"), data |-> unset]

PutResponseOutcome(err, data) ==
    IF err # null THEN [err |-> SetOrigin(err, "source"), data |-> unset]
    ELSE [err |-> null, data |-> data]

\* An event arrives: it is no longer pending, and its outcome is the first
\* one if none arrived before.
Arrived(att, event, outcome) ==
    [att EXCEPT !.pending = @ \ {event},
                !.first = IF @ = unset THEN outcome ELSE @]

\* sourceReq.on('error')
AttemptOnRequestError(att, err) ==
    LET o == RequestErrorOutcome(err) IN doneOnce(att, o.err, o.data)

\* incomingMsg.on('error')
AttemptOnStreamError(att, err) ==
    LET o == StreamErrorOutcome(err) IN doneOnce(att, o.err, o.data)

\* The callback of destReq.send: on success the metrics event is published
\* (and on the data path the version id recorded) before doneOnce.
AttemptOnPutResponse(att, err, data) ==
    LET o == PutResponseOutcome(err, data)
        att1 == IF err # null THEN att
                ELSE IF att.method = "_getAndPutPartOnce"
                THEN [att EXCEPT !.siteVersionId = data.versionId,
                                 !.completedBytes = @ + att.size]
                ELSE [att EXCEPT !.completedBytes = @ + att.size]
    IN  doneOnce(att1, o.err, o.data)

AttemptInit ==
    attempt \in { NewAttempt(m, n, sz) :
                     m \in AttemptMethods, n \in BOOLEAN, sz \in AttemptSizes }

AttemptStart ==
    /\ attempt.pc = "created"
    /\ attempt' = AttemptBegin(attempt)
    /\ UNCHANGED <<plan, task, consumer, mirror, boot>>

AttemptSourceRequestError ==
    /\ attempt.pc \in {"running", "thrown"} /\ "request" \in attempt.pending
    /\ \E err \in GetObjectErrors :
         attempt' = AttemptOnRequestError(
                        Arrived(attempt, "request", RequestErrorOutcome(err)), err)
    /\ UNCHANGED <<plan, task, consumer, mirror, boot>>

AttemptSourceStreamError ==
    /\ attempt.pc \in {"running", "thrown"} /\ "stream" \in attempt.pending
    /\ \E err \in GetObjectErrors :
         attempt' = AttemptOnStreamError(
                        Arrived(attempt, "stream", StreamErrorOutcome(err)), err)
    /\ UNCHANGED <<plan, task, consumer, mirror, boot>>

AttemptPutResponse ==
    /\ attempt.pc \in {"running", "thrown"} /\ "response" \in attempt.pending
    /\ \E err \in DestinationErrors \cup {null} :
         attempt' = AttemptOnPutResponse(
                        Arrived(attempt, "response", PutResponseOutcome(err, Success)),
                        err, Success)
    /\ UNCHANGED <<plan, task, consumer, mirror, boot>>

AttemptNext ==
    \/ AttemptStart
    \/ AttemptSourceRequestError
    \/ AttemptSourceStreamError
    \/ AttemptPutResponse

(***************************************************************************)
(* METRICS CONSUMER                                                        *)
(*                                                                         *)
(* MetricsConsumer.processKafkaEntry handles one record of the metrics     *)
(* topic: it keeps the site's counters in the key-value store, pending     *)
(* (incrementKey, decrementKey) and totals (reportNewRequest).             *)
(***************************************************************************)
ConsumerIdle == [id |-> "none"]

\* The extensions whose metrics have keys in the store; OtherExtension stands
\* for any other identifier.
crrExtension == "crr"
ingestionExtension == "ingestion"
OtherExtension == "other"

RedisKeyTypes ==
    { "ops", "bytes", "opsDone", "bytesDone", "opsFail", "bytesFail",
      "opsPending", "bytesPending", "objectBytes", "objectBytesDone" }

\* The redisKeys table of an extension: the name of each key type, <<>> for a
\* key type the extension has no key for.
NoRedisKey == <<>>
RedisKeysWith(extension, keyTypes) ==
    [ keyType \in RedisKeyTypes |->
        IF keyType \in keyTypes THEN <<"bb", extension, keyType>> ELSE NoRedisKey ]

crrRedisKeys == RedisKeysWith(crrExtension, RedisKeyTypes)

\* The tables the ingestion extension may have: every key type, or the
\* operation counts only.
IngestionRedisKeyTables ==
    { RedisKeysWith(ingestionExtension, RedisKeyTypes),
      RedisKeysWith(ingestionExtension,
                    { "ops", "opsDone", "opsFail", "opsPending" }) }

\* The counters of the key-value store: a key that was never written reads 0.
EmptyStore == [ key \in {} |-> 0 ]
Counter(store, key) == IF key \in DOMAIN store THEN store[key] ELSE 0
AddToKey(store, key, value) ==
    [ k \in DOMAIN store \cup {key} |->
        IF k = key THEN Counter(store, key) + value ELSE store[k] ]

\* StatsModel: incrementKey and decrementKey move the counter at the key,
\* reportNewRequest adds to the key's series of requests.
incrementKey(store, key, value) == AddToKey(store, key, value)
decrementKey(store, key, value) == AddToKey(store, key, 0 - value)
reportNewRequest(store, key, value) == AddToKey(store, key \o <<"requests">>, value)

\* `${site}:${redisKeys[keyType]}`
SiteKey(site, redisKey) == <<site>> \o redisKey

\* `${site}:${bucketName}:${objectKey}:${versionId}:${redisKeys[keyType]}`
ObjectKeyOf(data, redisKey) ==
    <<data.site, data.bucketName, data.objectKey, data.versionId>> \o redisKey

\* The consumer of the metrics of extension id, its store empty.
NewConsumer(id, ingestionRedisKeys) ==
    [ id |-> id,
      ingestionRedisKeys |-> ingestionRedisKeys,
      store |-> EmptyStore,
      pc |-> "ready",        \* "thrown": processKafkaEntry threw
      \* history
      doneArgs |-> <<>>,     \* the invocations of done by the latest call
      trace |-> <<>> ]       \* the entries handled, each with the store before

\* An exception, as a value.
Thrown == [thrown |-> TRUE]

\* _getRedisKeys(extension): the extension's table, or a throw.
_getRedisKeys(c, extension) ==
    IF extension = crrExtension THEN crrRedisKeys
    ELSE IF extension = ingestionExtension THEN c.ingestionRedisKeys
    ELSE Thrown

\* _sendRequest(action, site, redisKeys, keyType, value): nothing is sent for
\* a key type the table has no key for.
_sendRequest(store, action, site, redisKeys, keyType, value) ==
    IF redisKeys[keyType] = NoRedisKey THEN store
    ELSE LET key == SiteKey(site, redisKeys[keyType])
         IN  IF action = "incrementKey" THEN incrementKey(store, key, value)
             ELSE IF action = "decrementKey" THEN decrementKey(store, key, value)
             ELSE reportNewRequest(store, key, value)

\* The four requests of one branch of _sendSiteLevelRequests.
SiteLevelRequests(store, data, redisKeys, pendingAction, opsKey, bytesKey) ==
    LET s1 == _sendRequest(store, pendingAction, data.site, redisKeys, "opsPending", data.ops)
        s2 == _sendRequest(s1, pendingAction, data.site, redisKeys, "bytesPending", data.bytes)
        s3 == _sendRequest(s2, "reportNewRequest", data.site, redisKeys, opsKey, data.ops)
    IN  _sendRequest(s3, "reportNewRequest", data.site, redisKeys, bytesKey, data.bytes)

\* A faulty accounting: a failed operation stays pending.
_sendSiteLevelRequests_FailedStaysPending(c, data) ==
    LET redisKeys == _getRedisKeys(c, data.extension) IN
    IF redisKeys = Thrown THEN c
    ELSE IF data.type = "completed"
    THEN [c EXCEPT !.store = SiteLevelRequests(@, data, redisKeys, "decrementKey",
                                               "opsDone", "bytesDone")]
    ELSE IF data.type = "failed"
    THEN [c EXCEPT !.store =
            _sendRequest(_sendRequest(@, "reportNewRequest", data.site, redisKeys,
                                      "opsFail", data.ops),
                         "reportNewRequest", data.site, redisKeys, "bytesFail", data.bytes)]
    ELSE IF data.type = "queued"
    THEN [c EXCEPT !.store = SiteLevelRequests(@, data, redisKeys, "incrementKey",
                                               "ops", "bytes")]
    ELSE c

\* _sendSiteLevelRequests(data): a throw of _getRedisKeys is caught and
\* logged.
_sendSiteLevelRequests(c, data) ==
    LET redisKeys == _getRedisKeys(c, data.extension) IN
    IF redisKeys = Thrown THEN c
    ELSE IF data.type = "completed"
    THEN [c EXCEPT !.store = SiteLevelRequests(@, data, redisKeys, "decrementKey",
                                               "opsDone", "bytesDone")]
    ELSE IF data.type = "failed"
    THEN [c EXCEPT !.store = SiteLevelRequests(@, data, redisKeys, "decrementKey",
                                               "opsFail", "bytesFail")]
    ELSE IF data.type = "queued"
    THEN [c EXCEPT !.store = SiteLevelRequests(@, data, redisKeys, "incrementKey",
                                               "ops", "bytes")]
    ELSE c

\* _sendObjectLevelRequests(data): a throw of _getRedisKeys is not caught.
_sendObjectLevelRequests(c, data) ==
    LET redisKeys == _getRedisKeys(c, data.extension) IN
    IF redisKeys = Thrown THEN [c EXCEPT !.pc = "thrown"]
    ELSE IF data.type = "completed"
    THEN [c EXCEPT !.store = reportNewRequest(
                        @, ObjectKeyOf(data, redisKeys["objectBytesDone"]), data.bytes)]
    ELSE IF data.type = "queued"
    THEN [c EXCEPT !.store = reportNewRequest(
                        @, ObjectKeyOf(data, redisKeys["objectBytes"]), data.bytes)]
    ELSE c

\* The value of a record of the metrics topic: text that is no JSON, the
\* JSON text null, or the JSON text of an object; a field the object does not
\* carry reads as the empty string.
NotJSON == [json |-> "invalid"]
JSONNull == [json |-> "null"]
JSONObject(data) == [json |-> "object", data |-> data]

\* The record of a site-level event as the producer serialises it.
SiteLevelValue(record) ==
    JSONObject([ type |-> record.type, site |-> record.site, ops |-> record.ops,
                 bytes |-> record.bytes, extension |-> record.extension,
                 bucketName |-> "", objectKey |-> "", versionId |-> "" ])

\* JSON.parse(kafkaEntry.value)
JSON_parse(value) ==
    IF value.json = "invalid" THEN Thrown
    ELSE IF value.json = "null" THEN null
    ELSE value.data

\* done()
ConsumerDone(c) == [c EXCEPT !.doneArgs = Append(@, [err |-> null])]

\* A faulty filter: the entries of every extension are counted.
MetricsConsumer_processKafkaEntry_WithoutFilter(c0, kafkaEntry) ==
    LET c == [c0 EXCEPT !.doneArgs = <<>>]
        data == JSON_parse(kafkaEntry.value)
    IN  IF data = Thrown THEN ConsumerDone(c)
        ELSE IF data = null THEN [c EXCEPT !.pc = "thrown"]
        ELSE IF data.type \notin {"completed", "failed", "queued"} THEN ConsumerDone(c)
        ELSE LET c1 == IF data.bucketName # "" /\ data.objectKey # "" /\ data.versionId # ""
                       THEN _sendObjectLevelRequests(c, data)
                       ELSE _sendSiteLevelRequests(c, data)
             IN  IF c1.pc = "thrown" THEN c1 ELSE ConsumerDone(c1)

\* MetricsConsumer.processKafkaEntry(kafkaEntry, done): a value that does not
\* parse, a record of another extension and a record of an unknown type are
\* dropped; reading data.extension of null throws.
MetricsConsumer_processKafkaEntry(c0, kafkaEntry) ==
    LET c == [c0 EXCEPT !.doneArgs = <<>>]
        data == JSON_parse(kafkaEntry.value)
    IN  IF data = Thrown THEN ConsumerDone(c)
        ELSE IF data = null THEN [c EXCEPT !.pc = "thrown"]
        ELSE IF c.id # data.extension THEN ConsumerDone(c)
        ELSE IF data.type \notin {"completed", "failed", "queued"} THEN ConsumerDone(c)
        ELSE LET c1 == IF data.bucketName # "" /\ data.objectKey # "" /\ data.versionId # ""
                       THEN _sendObjectLevelRequests(c, data)
                       ELSE _sendSiteLevelRequests(c, data)
             IN  IF c1.pc = "thrown" THEN c1 ELSE ConsumerDone(c1)

\* The consumer takes one record of the task's topic.
ConsumeMetricsEntry ==
    /\ task.pc # "idle"
    /\ \E data \in BagToSet(task.topic) :
         /\ task' = [task EXCEPT !.topic = @ (-) SetToBag({data})]
         /\ consumer' = MetricsConsumer_processKafkaEntry(
                            consumer, [value |-> SiteLevelValue(data)])
    /\ UNCHANGED <<plan, mirror, attempt, boot>>

\* The records a metrics topic may hold: site-level events of two sites, of
\* each type and of a type the consumer does not know, object-level events,
\* an event of another extension, and values that are no JSON object.
MetricsSites == { "s1", "s2" }
MetricsTypes == { "queued", "completed", "failed", "processed" }
MetricsAmounts == { [ops |-> 1, bytes |-> 5], [ops |-> 2, bytes |-> 3] }
MaxMetricsEntries == 3

AnotherExtension(id) == IF id = crrExtension THEN ingestionExtension ELSE crrExtension

MetricsEntries(id) ==
    { [value |-> SiteLevelValue([type |-> ty, site |-> s, ops |-> a.ops,
                                 bytes |-> a.bytes, extension |-> id])] :
        ty \in MetricsTypes, s \in MetricsSites, a \in MetricsAmounts }
    \cup
    { [value |-> JSONObject([type |-> ty, site |-> "s1", ops |-> 1, bytes |-> 5,
                             extension |-> id, bucketName |-> "b1",
                             objectKey |-> "k", versionId |-> "v1"])] :
        ty \in MetricsTypes \ {"processed"} }
    \cup
    { [value |-> SiteLevelValue([type |-> "queued", site |-> "s1", ops |-> 1,
                                 bytes |-> 5, extension |-> AnotherExtension(id)])],
      [value |-> NotJSON], [value |-> JSONNull] }

ConsumerInit ==
    consumer \in { NewConsumer(id, keys) :
                     id \in {crrExtension, ingestionExtension, OtherExtension},
                     keys \in IngestionRedisKeyTables }

\* The consumer is handed one record; a throw ends the process.
ConsumerHandlesEntry ==
    /\ consumer.id # "none" /\ consumer.pc = "ready"
    /\ Len(consumer.trace) < MaxMetricsEntries
    /\ \E kafkaEntry \in MetricsEntries(consumer.id) :
         consumer' = [MetricsConsumer_processKafkaEntry(consumer, kafkaEntry)
                         EXCEPT !.trace = Append(@, [entry |-> kafkaEntry,
                                                     before |-> consumer.store])]
    /\ UNCHANGED <<plan, task, mirror, attempt, boot>>

(***************************************************************************)
(* MIRROR PROCESSOR                                                        *)
(*                                                                         *)
(* MongoQueueProcessor.processKafkaEntry on one log entry: the entry is    *)
(* parsed, the handler dispatches on its class, and the database client or *)
(* process.nextTick later runs the callback that invokes done.             *)
(***************************************************************************)
MirrorIdle == [pc |-> "idle"]

\* The classes QueueEntry.createFromKafkaEntry builds; ActionQueueEntry
\* stands for any class the handler has no branch for.
MirrorClasses ==
    { "DeleteOpQueueEntry", "ObjectQueueEntry", "BucketMdQueueEntry",
      "BucketQueueEntry", "ActionQueueEntry" }

\* The separator between an object's key and its version id in a log key.
VersionIdSeparator == "NUL"

NoVersionId == <<>>

\* The log entries: one per class, of a version or of a non-versioned
\* object, with zero to two data locations, and one that cannot be parsed.
MirrorVersionIds == { NoVersionId, <<"9", "8">> }
MirrorBuckets == { "b1", "b2" }
MaxMirrorLocations == 2

\* The i-th data location of an object at the source; the second one already
\* carries a version id of its data store.
MirrorLocation(i) ==
    [ key |-> <<"d", i>>, start |-> (i - 1) * 5, size |-> 5,
      dataStoreETag |-> <<i, ":", "e">>,
      dataStoreName |-> "us-east-1", dataStoreType |-> "scality",
      dataStoreVersionId |-> IF i = 2 THEN <<"o", "2">> ELSE NoVersionId ]

KafkaEntries ==
    { [ parses |-> TRUE, class |-> c, bucket |-> b,
        key |-> IF v = NoVersionId THEN <<"k">>
                ELSE <<"k", VersionIdSeparator>> \o v,
        location |-> [i \in 1..n |-> MirrorLocation(i)] ] :
        c \in MirrorClasses, b \in MirrorBuckets, v \in MirrorVersionIds,
        n \in 0..MaxMirrorLocations }
    \cup { [ parses |-> FALSE, class |-> "none", bucket |-> "b1",
             key |-> <<"k">>, location |-> <<>> ] }

\* The position of the separator in a log key, 0 when there is none.
RECURSIVE SeparatorIndex(_, _)
SeparatorIndex(key, i) ==
    IF i > Len(key) THEN 0
    ELSE IF key[i] = VersionIdSeparator THEN i
    ELSE SeparatorIndex(key, i + 1)

\* QueueEntry.createFromKafkaEntry: an entry of the class the record
\* describes, or { error } when the record cannot be parsed.
createFromKafkaEntry(kafkaEntry) ==
    LET sep == SeparatorIndex(kafkaEntry.key, 1) IN
    IF ~kafkaEntry.parses
    THEN [ error |-> [message |-> "malformed"], class |-> "none" ]
    ELSE [ error |-> unset, class |-> kafkaEntry.class,
           bucket |-> kafkaEntry.bucket,
           objectVersionedKey |-> kafkaEntry.key,
           objectKey |-> IF sep = 0 THEN kafkaEntry.key
                         ELSE SubSeq(kafkaEntry.key, 1, sep - 1),
           versionId |-> IF sep = 0 THEN NoVersionId
                         ELSE SubSeq(kafkaEntry.key, sep + 1, Len(kafkaEntry.key)),
           location |-> kafkaEntry.location,
           ownerDisplayName |-> "source-owner",
           ownerId |-> "source-owner-id" ]

\* entry.getEncodedVersionId()
getEncodedVersionId(entry) == <<"enc">> \o entry.versionId

\* entry.getValue(): the object metadata the entry carries.
getValue(entry) ==
    [ location |-> entry.location,
      ownerDisplayName |-> entry.ownerDisplayName,
      ownerId |-> entry.ownerId ]

\* A rewrite that records the version id whether or not the entry has one.
_manipulateLocation_AlwaysVersioned(entry) ==
    [entry EXCEPT !.location =
        [i \in DOMAIN @ |->
            [@[i] EXCEPT !.key = entry.objectKey,
                         !.dataStoreName = "philz-ring",
                         !.dataStoreType = "aws_s3",
                         !.dataStoreVersionId = getEncodedVersionId(entry)]]]

\* Object.assign({}, location, newValues) on every location, in order.
_manipulateLocation(entry) ==
    [entry EXCEPT !.location =
        [i \in DOMAIN @ |->
            [@[i] EXCEPT !.key = entry.objectKey,
                         !.dataStoreName = "philz-ring",
                         !.dataStoreType = "aws_s3",
                         !.dataStoreVersionId =
                             IF entry.versionId # NoVersionId
                             THEN getEncodedVersionId(entry) ELSE @]]]

_manipulateOwner(entry) ==
    [entry EXCEPT !.ownerDisplayName = "felipe",
                  !.ownerId = "117d39428f838cb5ac64ffd998f27e44167047a46e6504057b50ed484ae6c5de"]

NewMirror(kafkaEntry) ==
    [ pc |-> "created",
      kafkaEntry |-> kafkaEntry,
      sourceEntry |-> unset,
      nextTick |-> "none",   \* the callback process.nextTick holds
      \* history
      dbOps |-> <<>>,        \* the operations sent to the database client
      dbResult |-> unset,    \* the database client's answer
      doneArgs |-> <<>> ]    \* the error of each invocation of done

\* this._mongoClient.deleteObject(bucket, key, undefined, logger, cb)
_mongoClient_deleteObject(m, bucket, key, params) ==
    [m EXCEPT !.pc = "deleteObject",
              !.dbOps = Append(@, [op |-> "deleteObject", bucket |-> bucket,
                                   key |-> key, value |-> unset,
                                   params |-> params])]

\* this._mongoClient.putObject(bucket, key, objVal, undefined, logger, cb)
_mongoClient_putObject(m, bucket, key, objVal, params) ==
    [m EXCEPT !.pc = "putObject",
              !.dbOps = Append(@, [op |-> "putObject", bucket |-> bucket,
                                   key |-> key, value |-> objVal,
                                   params |-> params])]

\* done(err), done()
MirrorDone(m, err) ==
    [m EXCEPT !.pc = "done", !.doneArgs = Append(@, [err |-> err])]

\* The handler with the bucket branches it has commented out: a bucket
\* metadata entry and a bucket entry are put to the database.
MongoQueueProcessor_processKafkaEntry_WithBucketBranches(m) ==
    LET sourceEntry == createFromKafkaEntry(m.kafkaEntry)
        m1 == [m EXCEPT !.sourceEntry = sourceEntry]
    IN  IF sourceEntry.error # unset
        THEN [m1 EXCEPT !.pc = "nextTick", !.nextTick = "doneInternalError"]
        ELSE IF sourceEntry.class = "DeleteOpQueueEntry"
        THEN _mongoClient_deleteObject(m1, sourceEntry.bucket,
                 sourceEntry.objectVersionedKey, undefined)
        ELSE IF sourceEntry.class \in { "ObjectQueueEntry", "BucketMdQueueEntry",
                                        "BucketQueueEntry" }
        THEN LET manipulated == _manipulateOwner(_manipulateLocation(sourceEntry))
             IN  _mongoClient_putObject(
                     [m1 EXCEPT !.sourceEntry = manipulated],
                     manipulated.bucket, manipulated.objectVersionedKey,
                     getValue(manipulated), undefined)
        ELSE [m1 EXCEPT !.pc = "nextTick", !.nextTick = "done"]

\* processKafkaEntry(kafkaEntry, done) up to its return.
MongoQueueProcessor_processKafkaEntry(m) ==
    LET sourceEntry == createFromKafkaEntry(m.kafkaEntry)
        m1 == [m EXCEPT !.sourceEntry = sourceEntry]
    IN  IF sourceEntry.error # unset
        THEN [m1 EXCEPT !.pc = "nextTick", !.nextTick = "doneInternalError"]
        ELSE IF sourceEntry.class = "DeleteOpQueueEntry"
        THEN _mongoClient_deleteObject(m1, sourceEntry.bucket,
                 sourceEntry.objectVersionedKey, undefined)
        ELSE IF sourceEntry.class = "ObjectQueueEntry"
        THEN LET manipulated == _manipulateOwner(_manipulateLocation(sourceEntry))
             IN  _mongoClient_putObject(
                     [m1 EXCEPT !.sourceEntry = manipulated],
                     manipulated.bucket, manipulated.objectVersionedKey,
                     getValue(manipulated), undefined)
        \* BucketMdQueueEntry, BucketQueueEntry: the branches only log
        ELSE [m1 EXCEPT !.pc = "nextTick", !.nextTick = "done"]

\* The callbacks given to deleteObject and to putObject.
MirrorOnDatabaseResponse(m, err) ==
    IF err # null THEN MirrorDone(m, err) ELSE MirrorDone(m, null)

\* The callback given to process.nextTick.
MirrorOnNextTick(m) ==
    IF m.nextTick = "doneInternalError"
    THEN MirrorDone([m EXCEPT !.nextTick = "none"],
                    ArsenalError("InternalError", "mirror"))
    ELSE MirrorDone([m EXCEPT !.nextTick = "none"], null)

\* What the database client may answer.
MongoErrors ==
    { ArsenalError("InternalError", "mongo"), ArsenalError("NoSuchKey", "mongo") }

MirrorInit == mirror \in { NewMirror(k) : k \in KafkaEntries }

MirrorProcessKafkaEntry ==
    /\ mirror.pc = "created"
    /\ mirror' = MongoQueueProcessor_processKafkaEntry(mirror)
    /\ UNCHANGED <<plan, task, consumer, attempt, boot>>

MirrorDeleteObjectResponse ==
    /\ mirror.pc = "deleteObject"
    /\ \E err \in MongoErrors \cup {null} :
         mirror' = MirrorOnDatabaseResponse([mirror EXCEPT !.dbResult = err], err)
    /\ UNCHANGED <<plan, task, consumer, attempt, boot>>

MirrorPutObjectResponse ==
    /\ mirror.pc = "putObject"
    /\ \E err \in MongoErrors \cup {null} :
         mirror' = MirrorOnDatabaseResponse([mirror EXCEPT !.dbResult = err], err)
    /\ UNCHANGED <<plan, task, consumer, attempt, boot>>

MirrorNextTick ==
    /\ mirror.pc = "nextTick"
    /\ mirror' = MirrorOnNextTick(mirror)
    /\ UNCHANGED <<plan, task, consumer, attempt, boot>>

MirrorNext ==
    \/ MirrorProcessKafkaEntry
    \/ MirrorDeleteObjectResponse
    \/ MirrorPutObjectResponse
    \/ MirrorNextTick

(***************************************************************************)
(* STARTUP                                                                 *)
(*                                                                         *)
(* MongoQueueProcessor.start and MetricsConsumer.start: the mirror first   *)
(* sets up its database client; both then create the consumer and attach   *)
(* the handlers of its 'error' and 'ready' events.                         *)
(***************************************************************************)
BootIdle == [pc |-> "idle"]

\* The events the consumer emits during one run.
MaxConsumerEvents == 6

NewBoot(who) ==
    [ who |-> who,
      pc |-> "created",
      consumerReady |-> FALSE,
      \* history
      setup |-> unset,       \* the answer of the database setup
      events |-> <<>>,       \* the events the consumer has emitted
      subscribes |-> <<>>,   \* for each call of subscribe, the events before it
      exits |-> <<>> ]       \* the codes process.exit was called with

\* process.exit(code): the process ends there.
process_exit(b, code) == [b EXCEPT !.pc = "exited", !.exits = Append(@, code)]

\* new BackbeatConsumer(...) and the two handlers attached to it.
CreateConsumer(b) == [b EXCEPT !.pc = "consumer", !.consumerReady = FALSE]

\* MongoQueueProcessor.start() up to its return: the setup is pending.
MongoQueueProcessor_start(b) == [b EXCEPT !.pc = "setup"]

\* The callback of this._mongoClient.setup.
OnMongoSetup(b, err) ==
    IF err # null THEN process_exit(b, 1) ELSE CreateConsumer(b)

\* MetricsConsumer.start()
MetricsConsumer_start(b) == CreateConsumer(b)

\* A handler of 'error' that exits whenever the consumer reports an error.
OnConsumerError_Always(b) == process_exit(b, 1)

\* consumer.on('error')
OnConsumerError(b) == IF ~b.consumerReady THEN process_exit(b, 1) ELSE b

\* consumer.on('ready')
OnConsumerReady(b) ==
    [b EXCEPT !.consumerReady = TRUE, !.subscribes = Append(@, b.events)]

BootInit == boot \in { NewBoot(w) : w \in {"MongoQueueProcessor", "MetricsConsumer"} }

BootStart ==
    /\ boot.pc = "created"
    /\ boot' = IF boot.who = "MongoQueueProcessor"
               THEN MongoQueueProcessor_start(boot)
               ELSE MetricsConsumer_start(boot)
    /\ UNCHANGED <<plan, task, consumer, mirror, attempt>>

MongoSetupResponse ==
    /\ boot.pc = "setup"
    /\ \E err \in MongoErrors \cup {null} :
         boot' = OnMongoSetup([boot EXCEPT !.setup = err], err)
    /\ UNCHANGED <<plan, task, consumer, mirror, attempt>>

ConsumerEmitsError ==
    /\ boot.pc = "consumer" /\ Len(boot.events) < MaxConsumerEvents
    /\ boot' = OnConsumerError([boot EXCEPT !.events = Append(@, "error")])
    /\ UNCHANGED <<plan, task, consumer, mirror, attempt>>

ConsumerEmitsReady ==
    /\ boot.pc = "consumer" /\ Len(boot.events) < MaxConsumerEvents
    /\ boot' = OnConsumerReady([boot EXCEPT !.events = Append(@, "ready")])
    /\ UNCHANGED <<plan, task, consumer, mirror, attempt>>

BootNext ==
    \/ BootStart
    \/ MongoSetupResponse
    \/ ConsumerEmitsError
    \/ ConsumerEmitsReady

(***************************************************************************)
(* Specifications.                                                         *)
(***************************************************************************)
Init ==
    /\ plan = PlanIdle /\ TaskInit
    /\ consumer = ConsumerIdle /\ mirror = MirrorIdle /\ attempt = AttemptIdle /\ boot = BootIdle
Next == TaskNext
Spec == Init /\ [][Next]_vars

\* The task together with the consumer of its metrics events.
InitMetrics ==
    /\ plan = PlanIdle /\ TaskInit
    /\ consumer = NewConsumer(metricsExtension,
                              RedisKeysWith(ingestionExtension, RedisKeyTypes))
    /\ mirror = MirrorIdle
    /\ attempt = AttemptIdle /\ boot = BootIdle
NextMetrics == TaskNext \/ ConsumeMetricsEntry
SpecMetrics == InitMetrics /\ [][NextMetrics]_vars

\* The tasks of many parts: more parts than MPU_CONC_LIMIT on the MPU path and
\* on the data path, and one entry of each other branch.
ManyParts == MPU_CONC_LIMIT + 1

ManyPartsEntries ==
    { [ isNFS |-> FALSE, isDeleteMarker |-> FALSE, content |-> {"DATA", "METADATA"},
        contentLength |-> ManyParts, endpointType |-> "aws_s3",
        location |-> [i \in 1..ManyParts |-> Location(i, 1, "etag1")] ],
      [ isNFS |-> FALSE, isDeleteMarker |-> FALSE,
        content |-> {"DATA", "METADATA", "MPU"},
        contentLength |-> MPU_CONC_LIMIT * 16 * Bytes + 1, endpointType |-> "aws_s3",
        location |-> <<>> ] } \cup
    { e \in Entries : /\ ~e.isNFS /\ e.contentLength = 0
                      /\ \/ e.content \cap {"DATA", "MPU"} = {}
                         \/ e.endpointType = "azure" }

InitManyParts ==
    /\ plan = PlanIdle /\ consumer = ConsumerIdle /\ mirror = MirrorIdle
    /\ attempt = AttemptIdle /\ boot = BootIdle
    /\ task \in UNION { { [NewTask(e) EXCEPT !.faultsLeft = MaxPartFaults,
                                              !.uuid = u] : u \in UuidsFor(e) } :
                           e \in ManyPartsEntries }
SpecManyParts == InitManyParts /\ [][Next]_vars

InitPlanner ==
    /\ PlanInit /\ task = TaskIdle
    /\ consumer = ConsumerIdle /\ mirror = MirrorIdle /\ attempt = AttemptIdle /\ boot = BootIdle

\* One attempt of a part transfer.
InitAttempt ==
    /\ AttemptInit /\ plan = PlanIdle /\ task = TaskIdle
    /\ consumer = ConsumerIdle /\ mirror = MirrorIdle /\ boot = BootIdle
NextAttempt == AttemptNext
SpecAttempt == InitAttempt /\ [][NextAttempt]_vars

\* The mirror processor on one log entry.
InitMirror ==
    /\ MirrorInit /\ plan = PlanIdle /\ task = TaskIdle
    /\ consumer = ConsumerIdle /\ attempt = AttemptIdle /\ boot = BootIdle
NextMirror == MirrorNext
SpecMirror == InitMirror /\ [][NextMirror]_vars

\* The startup of the mirror processor and of the metrics consumer.
InitBoot ==
    /\ BootInit /\ plan = PlanIdle /\ task = TaskIdle
    /\ consumer = ConsumerIdle /\ mirror = MirrorIdle /\ attempt = AttemptIdle
NextBoot == BootNext
SpecBoot == InitBoot /\ [][NextBoot]_vars

\* The metrics consumer on the records of a topic.
InitConsumer ==
    /\ ConsumerInit /\ plan = PlanIdle /\ task = TaskIdle
    /\ mirror = MirrorIdle /\ attempt = AttemptIdle /\ boot = BootIdle
NextConsumer == ConsumerHandlesEntry
SpecConsumer == InitConsumer /\ [][NextConsumer]_vars

NextPlanner == PlanNext
SpecPlanner == InitPlanner /\ [][NextPlanner]_vars

(***************************************************************************)
(* Vocabulary of the properties.                                           *)
(***************************************************************************)
DestinationOperations ==
    { "multipleBackendInitiateMPU", "multipleBackendPutMPUPart",
      "multipleBackendCompleteMPU", "multipleBackendAbortMPU",
      "multipleBackendPutObject", "multipleBackendDeleteObject",
      "multipleBackendPutObjectTagging", "multipleBackendDeleteObjectTagging" }

\* The task has reported: _handleReplicationOutcome ran and invoked done.
Reported == task.pc = "done"
Succeeded == Reported /\ task.outcome = null
EndedWith(name) == Reported /\ task.outcome # null /\ HasName(task.outcome, name)

Skipped ==
    /\ task.published = <<>>
    /\ task.doneCalls = << [err |-> null, committable |-> TRUE] >>

PublishedOnly(status) == task.published = << [site |-> Site, status |-> status] >>

\* The sizes of ranges lo..hi of r, summed by halves.
RECURSIVE SumSizes(_, _, _)
SumSizes(r, lo, hi) ==
    IF lo > hi THEN 0
    ELSE IF lo = hi THEN RangeSizeOf(r[lo])
    ELSE LET mid == (lo + hi) \div 2
         IN  SumSizes(r, lo, mid) + SumSizes(r, mid + 1, hi)

Tiles(r, contentLen) ==
    /\ r[1].start = 0
    /\ \A i \in 1..(Len(r) - 1) : r[i + 1].start = r[i].end + 1
    /\ \A i \in 1..Len(r) : r[i].start <= r[i].end
    /\ r[Len(r)].end = contentLen - 1
    /\ SumSizes(r, 1, Len(r)) = contentLen

(***************************************************************************)
(* Properties.                                                             *)
(***************************************************************************)

\* C1: on the MPU path no multipleBackendPutMPUPart is issued before init-MPU
\* has returned an uploadId, multipleBackendCompleteMPU is issued only after
\* every planned part 1..N has returned success, and once a part has ended
\* in error complete-MPU is never issued.
C1_MPUOrder ==
    /\ task.reqs["multipleBackendPutMPUPart"] > 0 => task.uploadId # NoUploadId
    /\ task.reqs["multipleBackendCompleteMPU"] > 0 =>
          /\ task.mode = "mpu"
          /\ DOMAIN task.parts = 1..Len(PartList(task))
          /\ \A p \in DOMAIN task.parts : task.parts[p].st = "ok"
    /\ task.partErrors # {} => task.reqs["multipleBackendCompleteMPU"] = 0

C1_Witness ==
    /\ task.reqs["multipleBackendCompleteMPU"] = 1
    /\ Len(task.parts) = 2
    /\ task.reqs["multipleBackendPutMPUPart"] > 2

\* C2 (as claimed): whenever an MPU has been initiated and a part upload has
\* ended with a non-retryable error, multipleBackendAbortMPU has been issued
\* by the time the task reports its outcome.
C2_AbortOnPartFailure ==
    ( /\ Reported
      /\ task.mode = "mpu" /\ task.uploadId # NoUploadId
      /\ task.partErrors # {}
      /\ task.outcome # null /\ ~task.outcome.retryable )
    => task.reqs["multipleBackendAbortMPU"] > 0

C4_TargetErrorPublishesFailed ==
    ( /\ Reported
      /\ task.outcome # null
      /\ task.outcome.arose = "target" /\ ~task.outcome.retryable )
    => PublishedOnly("FAILED")

\* C5: when the task ends with an ObjNotFound or InvalidObjectState error no
\* replication status is published and done is invoked once, with no error
\* and without {committable: false}.
C5_NotFoundAndInvalidStateSkip ==
    (EndedWith("ObjNotFound") \/ EndedWith("InvalidObjectState")) => Skipped

C5_Witness ==
    /\ EndedWith("InvalidObjectState")
    /\ task.reqs["getMetadata"] = 1
    /\ \A op \in DestinationOperations : task.reqs[op] = 0

\* C6 (as claimed): when no rule of the fetched policy is Enabled with a
\* Prefix the object key starts with, the task ends with PreconditionFailed,
\* fetches no source metadata, issues no destination operation and publishes
\* no status.
C6_DisabledReplicationSkips ==
    ( /\ Reported
      /\ task.outcome # null /\ task.outcome.flag = "PreconditionFailed" )
    => /\ task.reqs["getMetadata"] = 0
       /\ \A op \in DestinationOperations : task.reqs[op] = 0
       /\ task.published = <<>>

C8_OriginMatchesWhereItArose ==
    ( /\ Reported
      /\ task.outcome # null
      /\ task.outcome.arose \in {"source", "target"} )
    => task.outcome.origin = task.outcome.arose

\* C9: for every contentLength L >= 1 and both destination families the
\* ranges _getRanges returns tile [0, L-1] exactly: the first starts at 0,
\* each next one starts at the previous end + 1, every range has
\* start <= end, the last ends at L-1, and the sizes sum to L.
C9_RangesTile ==
    (plan.phase = "returned" /\ plan.contentLen >= 1)
    => Tiles(plan.result, plan.contentLen)

C9_Witness ==
    /\ plan.phase = "returned"
    /\ plan.isGCP
    /\ Len(plan.result) = 513
    /\ RangeSizeOf(plan.result[513]) < RangeSizeOf(plan.result[1])

\* C10: for every contentLength from 0 up to 5 TiB the number of ranges
\* _getRanges returns is between 1 and 10000 for a generic destination and
\* between 1 and 1024 for a GCP destination.
C10_RangeCount ==
    plan.phase = "returned" =>
        /\ Len(plan.result) >= 1
        /\ Len(plan.result) <= 10000
        /\ plan.isGCP => Len(plan.result) <= MPU_GCP_MAX_PARTS

C10_Witness ==
    /\ plan.phase = "returned"
    /\ plan.isGCP
    /\ plan.contentLen = 512 * 1024 * KiB
    /\ Len(plan.result) = MPU_GCP_MAX_PARTS

\* A generic-destination call of _getRanges has returned.
GenericReturned == plan.phase = "returned" /\ ~plan.isGCP

\* contentLen is exactly n MiB.
IsMiB(n) == plan.mib = MiB /\ plan.contentLen = n

\* C11 (as claimed): for contentLength = 64 GiB and a generic destination the
\* part size is 64 MiB and _getRanges returns exactly 1024 parts.
C11_SixtyFourGiBIn1024Parts ==
    (GenericReturned /\ IsMiB(64 * 1024))
    => /\ plan.loc.size = 64 * plan.mib
       /\ Len(plan.result) = 1024

\* C11 (amended): for contentLength = 64 GiB and a generic destination the
\* part size after doubling is 128 MiB and _getRanges returns exactly 512
\* parts.
C11_SixtyFourGiBIn512Parts ==
    (GenericReturned /\ IsMiB(64 * 1024))
    => /\ plan.loc.size = 128 * plan.mib
       /\ Len(plan.result) = 512
       /\ \A i \in 1..Len(plan.result) : RangeSizeOf(plan.result[i]) = 128 * plan.mib

C11_Witness ==
    /\ GenericReturned
    /\ IsMiB(64 * 1024)
    /\ Len(plan.result) = 512

\* contentLen in (16 MiB, n MiB], whatever the unit it is held in.
BetweenSixteenMiBAnd(n) ==
    /\ plan.contentLen > 16 * plan.mib
    /\ ~RatioExceeds(plan.contentLen, plan.mib, n)

\* C12 (as claimed): for every contentLength L with 16 MiB < L <= 512 GiB and
\* a generic destination the part count is between 2 and 1000.
C12_UpTo512GiB ==
    (GenericReturned /\ BetweenSixteenMiBAnd(512 * 1024))
    => Len(plan.result) >= 2 /\ Len(plan.result) <= 1000

\* C12 (amended): for every contentLength L with 16 MiB < L <= 500 GiB
\* (1000 parts of 512 MiB) and a generic destination the part count is
\* between 2 and 1000; for 500 GiB < L <= 512 GiB the part size is 512 MiB
\* and the part count is between 1001 and 1024.
C12_UpTo500GiB ==
    /\ (GenericReturned /\ BetweenSixteenMiBAnd(1000 * 512))
       => Len(plan.result) >= 2 /\ Len(plan.result) <= 1000
    /\ ( /\ GenericReturned
         /\ BetweenSixteenMiBAnd(512 * 1024)
         /\ ~BetweenSixteenMiBAnd(1000 * 512) )
       => /\ plan.loc.size = 512 * plan.mib
          /\ Len(plan.result) >= 1001 /\ Len(plan.result) <= 1024

C12_Witness ==
    /\ GenericReturned
    /\ IsMiB(1000 * 512)
    /\ plan.loc.size = 512 * plan.mib
    /\ Len(plan.result) = 1000

InFlight == { p \in DOMAIN task.parts : task.parts[p].st = "running" }

\* C14: at every moment of a task at most 10 MPU parts, respectively at most
\* 10 reduced-location parts on the data path, are in flight.
C14_AtMostTenInFlight ==
    task.mode \in {"mpu", "data"} => Cardinality(InFlight) <= 10

C14_Witness ==
    /\ task.mode = "mpu"
    /\ Len(task.parts) = 11
    /\ Cardinality(InFlight) = 10
    /\ task.parts[11].st = "running"
    /\ \E p \in 1..10 : task.parts[p].tries > 0

\* The dispatch chose the MPU branch.
MPUBranchTaken ==
    /\ task.sourceMD # unset
    /\ ~task.entry.isDeleteMarker
    /\ ~(task.sourceMD.siteStatus = "COMPLETED" /\ "DATA" \in task.entry.content)
    /\ "MPU" \in task.entry.content

\* Nothing of the task will run any more.
Stopped == task.pc \in {"done", "thrown"}

\* C15 (as claimed): an NFS entry on the MPU path has its object state
\* re-checked after a part completes; the task stops only by reporting, and
\* when the re-check finds a changed MD5 the open upload is aborted,
\* complete-MPU is never issued, the task ends with InvalidObjectState and no
\* FAILED status is published.
C15_ChangedSourceAbortsUpload ==
    (task.entry.isNFS /\ MPUBranchTaken /\ Stopped)
    => /\ Reported
       /\ EndedWith("InvalidObjectState") =>
             /\ task.uploadId # NoUploadId => task.reqs["multipleBackendAbortMPU"] > 0
             /\ task.reqs["multipleBackendCompleteMPU"] = 0
             /\ task.published = <<>>

\* C16 (as claimed): on the MPU path of an NFS entry the object state is
\* re-checked (a second metadata request) before init-MPU, and a task the
\* check ends with InvalidObjectState has issued no init-MPU and no part
\* upload; for a non-NFS entry no such check is made.
C16_StateCheckedBeforeInit ==
    MPUBranchTaken =>
        IF task.entry.isNFS
        THEN /\ task.reqs["getMetadata"] >= 2
             /\ EndedWith("InvalidObjectState") =>
                   /\ task.reqs["multipleBackendInitiateMPU"] = 0
                   /\ task.reqs["multipleBackendPutMPUPart"] = 0
        ELSE task.reqs["getMetadata"] = 1

\* The destination operations of the branch the priority order selects.
BranchOperations(e, sourceMD) ==
    IF e.isDeleteMarker THEN { "multipleBackendDeleteObject" }
    ELSE IF sourceMD.siteStatus = "COMPLETED" /\ "DATA" \in e.content THEN {}
    ELSE IF "MPU" \in e.content
    THEN { "multipleBackendInitiateMPU", "multipleBackendPutMPUPart",
           "multipleBackendCompleteMPU", "multipleBackendAbortMPU" }
    ELSE IF "PUT_TAGGING" \in e.content THEN { "multipleBackendPutObjectTagging" }
    ELSE IF "DELETE_TAGGING" \in e.content THEN { "multipleBackendDeleteObjectTagging" }
    ELSE { "multipleBackendPutObject" }

\* C17: a destination operation is issued only after the policy check and the
\* metadata fetch succeeded, and only by the one branch the priority selects:
\* delete marker; else COMPLETED with DATA (skip with InvalidObjectState);
\* else MPU; else PUT_TAGGING; else DELETE_TAGGING; else data.  The
\* delete-marker and tagging branches of a non-NFS entry issue their
\* operation as soon as they are taken.
C17_OneBranchByPriority ==
    /\ \A op \in DestinationOperations :
          task.reqs[op] > 0 =>
              /\ task.sourceMD # unset
              /\ op \in BranchOperations(task.entry, task.sourceMD)
    /\ ( /\ task.sourceMD # unset
         /\ ~task.entry.isNFS
         /\ BranchOperations(task.entry, task.sourceMD) \in
               { {"multipleBackendDeleteObject"},
                 {"multipleBackendPutObjectTagging"},
                 {"multipleBackendDeleteObjectTagging"} } )
       => \A op \in BranchOperations(task.entry, task.sourceMD) : task.reqs[op] > 0

C17_Witness ==
    /\ Succeeded
    /\ task.entry.content = {"METADATA", "PUT_TAGGING", "DELETE_TAGGING"}
    /\ task.sourceMD.siteStatus = "COMPLETED"
    /\ task.reqs["multipleBackendPutObjectTagging"] = 1

\* C18: for a non-delete-marker entry whose refreshed metadata reports site
\* status COMPLETED and whose content includes DATA, the task issues no
\* destination operation and no source read, publishes no status and ends as
\* a skip with InvalidObjectState.
C18_AlreadyCompletedSkips ==
    ( /\ task.sourceMD # unset
      /\ ~task.entry.isDeleteMarker
      /\ task.sourceMD.siteStatus = "COMPLETED"
      /\ "DATA" \in task.entry.content )
    => /\ \A op \in DestinationOperations : task.reqs[op] = 0
       /\ task.reqs["getObject"] = 0
       /\ EndedWith("InvalidObjectState")
       /\ Skipped

C18_Witness ==
    /\ task.sourceMD # unset
    /\ task.sourceMD.siteStatus = "COMPLETED"
    /\ task.entry.content = {"DATA", "METADATA", "MPU"}
    /\ ~task.entry.isDeleteMarker
    /\ EndedWith("InvalidObjectState")

\* C19 (as claimed): a delete-marker entry whose source metadata lookup
\* answers ObjNotFound still proceeds to multipleBackendDeleteObject.
C19_DeleteMarkerSurvivesObjNotFound ==
    ( /\ task.entry.isDeleteMarker
      /\ Reported
      /\ task.sourceMD = unset
      /\ task.reqs["getMetadata"] = 1
      /\ task.outcome # null /\ HasName(task.outcome, "ObjNotFound") )
    => task.reqs["multipleBackendDeleteObject"] > 0

\* C20 (as claimed): for an entry with DATA or MPU content and a location
\* without dataStoreETag no source read and no destination write is issued,
\* and the task does not succeed.
C20_MissingETagStopsAllIO ==
    ( /\ \E i \in DOMAIN task.entry.location :
            task.entry.location[i].dataStoreETag = undefined
      /\ task.entry.content \cap {"DATA", "MPU"} # {} )
    => /\ task.reqs["getObject"] = 0
       /\ \A op \in DestinationOperations : task.reqs[op] = 0
       /\ ~Succeeded

\* The data path was taken with no location parts: a metadata-only put.
MetadataOnlyPut == task.mode = "data" /\ getReducedLocations(task.entry) = <<>>

C22_RetryableMPUErrorIsRetried ==
    ( /\ Reported
      /\ MPUBranchTaken /\ ~IsAzure(task)
      /\ task.partErrors = {}
      /\ task.outcome # null /\ task.outcome.retryable )
    => task.reqs["multipleBackendInitiateMPU"] > 1

\* C23 (as claimed): when an attempt of a destination write fails with a
\* retryable error that arose at the destination, the retry hook advances the
\* destination host picker and re-binds the destination client before the
\* next attempt.  (A metadata-only put of an empty object reads nothing from
\* the source, so its retry follows a destination error.)
C23_TargetRetryAdvancesHost ==
    ( /\ MetadataOnlyPut
      /\ task.reqs["getObject"] = 0
      /\ task.parts[1].tries = 1 )
    => task.destHost = [picked |-> 1, bound |-> 1]

\* C24 (as claimed): for every task that transfers object data (MPU path,
\* multi-part data path or metadata-only single put) and ends in success, the
\* bytes of the 'queued' events it published sum to contentLength and the
\* bytes of the 'completed' events it published sum to contentLength.
C24_MetricsSumToContentLength ==
    (Succeeded /\ task.mode \in {"mpu", "data"})
    => /\ task.metrics.queuedBytes = task.entry.contentLength
       /\ task.metrics.completedBytes = task.entry.contentLength

\* Nothing of the task is in flight any more, and the consumer has taken
\* every metrics event the task published.
SettledAndConsumed ==
    /\ Reported
    /\ \A p \in DOMAIN task.parts :
          task.parts[p].st # "running" /\ task.parts[p].late = 0
    /\ task.topic = EmptyBag

\* C25 (as claimed): starting from opsPending = 0, once a task has settled
\* and the metrics consumer has processed every event the task published,
\* the site's opsPending counter is 0 again.
C25_OpsPendingReturnsToZero ==
    SettledAndConsumed =>
        Counter(consumer.store, SiteKey(Site, crrRedisKeys["opsPending"])) = 0

\* Every character of str is a hex digit.
IsHex(str) == \A i \in 1..Len(str) : str[i] \in HexDigits

\* C26: for an azure endpoint _initiateMPU issues no multipleBackendInitiateMPU
\* and yields a locally generated uploadId (the uuid without its dashes) made
\* only of hex digits, handed over asynchronously: while the setImmediate
\* callback is pending the task has no uploadId and has started nothing.  For
\* every other endpoint type the uploadId is exactly the one the init-MPU
\* response returned.
C26_AzureUploadIdIsLocal ==
    MPUBranchTaken =>
        IF IsAzure(task)
        THEN /\ task.reqs["multipleBackendInitiateMPU"] = 0
             /\ task.initiateMPUData = unset
             /\ task.pc = "setImmediate" =>
                    /\ task.uploadId = NoUploadId
                    /\ task.mode = "none"
                    /\ task.metrics.queuedOps = 0
             /\ task.uploadId # NoUploadId =>
                    /\ task.uploadId = RemoveDashes(task.uuid)
                    /\ IsHex(task.uploadId)
                    /\ Len(task.uploadId) = Len(task.uuid) - 2
        ELSE /\ task.pc # "setImmediate"
             /\ task.uploadId # NoUploadId =>
                    /\ task.reqs["multipleBackendInitiateMPU"] = 1
                    /\ task.initiateMPUData # unset
                    /\ task.uploadId = task.initiateMPUData.uploadId

C26_Witness ==
    /\ IsAzure(task)
    /\ Succeeded
    /\ task.uuid = <<"f", "f", "-", "4", "1", "-", "9", "c">>
    /\ task.uploadId = <<"f", "f", "4", "1", "9", "c">>
    /\ task.reqs["multipleBackendCompleteMPU"] = 1

\* C27: when all parts succeed, the part list complete-MPU sends has exactly
\* one element per planned range, in ascending order of part number 1..N
\* whatever the order in which the part uploads completed; each element
\* carries PartNumber and ETag (those of its part's response), and carries
\* NumberSubParts if and only if the endpoint type is azure.
C27_PartListInPartOrder ==
    task.reqs["multipleBackendCompleteMPU"] > 0 =>
        LET data == task.completeMPUData
        IN  /\ DOMAIN data = 1..Len(PartList(task))
            /\ \A n \in DOMAIN data :
                  /\ data[n].PartNumber = <<n>>
                  /\ data[n].ETag = <<ETagOf(n)>>
                  /\ DOMAIN data[n] =
                        IF IsAzure(task)
                        THEN {"PartNumber", "ETag", "NumberSubParts"}
                        ELSE {"PartNumber", "ETag"}

C27_Witness ==
    /\ task.reqs["multipleBackendCompleteMPU"] = 1
    /\ IsAzure(task)
    /\ Len(task.completeMPUData) = 2
    /\ task.completeMPUData[2] =
          [PartNumber |-> <<2>>, ETag |-> <<ETagOf(2)>>, NumberSubParts |-> <<1>>]
    /\ task.parts[1].tries = 1 /\ task.parts[2].tries = 0

\* C28 (as claimed): for every replication entry _processReplicationEntry
\* invokes done exactly once and never with an error; done receives
\* {committable: false} if and only if a replication status was published,
\* and at most one status is published.
C28_DoneExactlyOnce ==
    /\ Len(task.doneCalls) <= 1
    /\ Len(task.published) <= 1
    /\ \A i \in DOMAIN task.doneCalls : task.doneCalls[i].err = null
    /\ Stopped =>
          /\ Len(task.doneCalls) = 1
          /\ ~task.doneCalls[1].committable <=> task.published # <<>>

\* C29: each attempt of a part transfer (_getRangeAndPutMPUPartOnce,
\* _getAndPutPartOnce) invokes its completion callback at most once, with the
\* first outcome to arrive, even when the source request error, the source
\* stream error and the destination response all fire for the same attempt.
C29_AttemptCallsBackOnce ==
    attempt.pc \in {"running", "thrown"} =>
        /\ Len(attempt.doneArgs) <= 1
        /\ attempt.called <=> attempt.doneArgs # <<>>
        /\ attempt.first # unset <=> attempt.doneArgs # <<>>
        /\ attempt.doneArgs # <<>> => attempt.doneArgs[1] = attempt.first

\* The destination's answer, then both source errors, have arrived for one
\* attempt.
C29_Witness ==
    /\ attempt.pc = "running"
    /\ attempt.size # 0
    /\ attempt.pending = {}
    /\ attempt.doneArgs = << [err |-> null, data |-> Success] >>
    /\ attempt.completedBytes = attempt.size

\* The entry was parsed and the handler has returned.
MirrorDispatched == mirror.pc \notin {"idle", "created"} /\ mirror.sourceEntry.error = unset

\* C30: the mirror processor's processKafkaEntry dispatches on the parsed
\* entry's variant: a delete entry gives exactly one deleteObject on the
\* versioned key with undefined version parameters and no putObject; an object
\* entry gives exactly one putObject keyed by the versioned key and no
\* deleteObject; a bucket entry, a bucket metadata entry or any other variant
\* gives no database operation.  In every case done is invoked exactly once,
\* with the database's error if the operation failed and with no error
\* otherwise.
C30_MirrorDispatch ==
    MirrorDispatched =>
        LET e == mirror.sourceEntry
            k == mirror.kafkaEntry
        IN  /\ e.class = "DeleteOpQueueEntry" =>
                  mirror.dbOps = << [op |-> "deleteObject", bucket |-> k.bucket,
                                     key |-> k.key, value |-> unset,
                                     params |-> undefined] >>
            /\ e.class = "ObjectQueueEntry" =>
                  /\ Len(mirror.dbOps) = 1
                  /\ mirror.dbOps[1].op = "putObject"
                  /\ mirror.dbOps[1].bucket = k.bucket
                  /\ mirror.dbOps[1].key = k.key
                  /\ mirror.dbOps[1].params = undefined
            /\ e.class \notin {"DeleteOpQueueEntry", "ObjectQueueEntry"} =>
                  mirror.dbOps = <<>>
            /\ Len(mirror.doneArgs) <= 1
            /\ mirror.pc = "done" <=> Len(mirror.doneArgs) = 1
            /\ mirror.pc = "nextTick" => mirror.dbOps = <<>>
            /\ mirror.pc = "done" =>
                  mirror.doneArgs[1].err =
                      IF mirror.dbOps = <<>> THEN null ELSE mirror.dbResult

\* An object entry of a version was put under its versioned key and the
\* database failed the operation.
C30_Witness ==
    /\ mirror.pc = "done"
    /\ mirror.sourceEntry.class = "ObjectQueueEntry"
    /\ mirror.sourceEntry.versionId # NoVersionId
    /\ Len(mirror.dbOps) = 1 /\ mirror.dbOps[1].key = mirror.kafkaEntry.key
    /\ Len(mirror.dbOps[1].value.location) = MaxMirrorLocations
    /\ mirror.doneArgs = << [err |-> ArsenalError("InternalError", "mongo")] >>

\* The fields of a location that _manipulateLocation does not name.
OtherLocationFields(location) ==
    [ start |-> location.start, size |-> location.size,
      dataStoreETag |-> location.dataStoreETag ]

\* C31: for every object entry the mirror handles, _manipulateLocation keeps
\* the number and the order of the location parts and every other field of
\* each part, sets each part's dataStoreName and dataStoreType to the mirror's
\* canonical values and its key to the object key, and sets dataStoreVersionId,
\* to the encoded version id, if and only if the entry has a version id.
C31_ManipulateLocation ==
    MirrorDispatched /\ mirror.sourceEntry.class = "ObjectQueueEntry" =>
        LET e == mirror.sourceEntry
            before == mirror.kafkaEntry.location
            after == mirror.dbOps[1].value.location
        IN  /\ after = e.location
            /\ Len(after) = Len(before)
            /\ \A i \in 1..Len(before) :
                 /\ OtherLocationFields(after[i]) = OtherLocationFields(before[i])
                 /\ after[i].dataStoreName = "philz-ring"
                 /\ after[i].dataStoreType = "aws_s3"
                 /\ after[i].key = e.objectKey
                 /\ after[i].dataStoreVersionId =
                        IF e.versionId # NoVersionId
                        THEN getEncodedVersionId(e)
                        ELSE before[i].dataStoreVersionId

\* An object entry without a version id and with two locations was rewritten:
\* the second location keeps the version id it had.
C31_Witness ==
    /\ MirrorDispatched /\ mirror.sourceEntry.class = "ObjectQueueEntry"
    /\ mirror.sourceEntry.versionId = NoVersionId
    /\ Len(mirror.sourceEntry.location) = MaxMirrorLocations
    /\ mirror.sourceEntry.location[2].dataStoreName = "philz-ring"
    /\ mirror.sourceEntry.location[2].dataStoreVersionId = <<"o", "2">>
    /\ mirror.sourceEntry.location[2].key = <<"k">>

\* C32: when a log record cannot be parsed into an entry, the mirror issues no
\* database operation and drops the entry as committable: done is invoked
\* without an error.
C32_MalformedIsDropped ==
    /\ mirror.pc \notin {"idle", "created"}
    /\ mirror.sourceEntry.error # unset
    /\ mirror.pc = "done"
    => /\ mirror.dbOps = <<>>
       /\ mirror.doneArgs = << [err |-> null] >>

\* The consumer emitted 'error' before it had emitted 'ready'.
ErrorBeforeReady ==
    \E i \in 1..Len(boot.events) :
        /\ boot.events[i] = "error"
        /\ \A j \in 1..(i - 1) : boot.events[j] # "ready"

\* C33: during the startup of the mirror processor and of the metrics
\* consumer the process exits, with code 1, exactly when the consumer emits an
\* error before it has emitted 'ready' or, for the mirror, when the database
\* setup fails; an error emitted after 'ready' causes no exit; subscribe is
\* called only after 'ready' and, for the mirror, only after the database
\* setup succeeded.
C33_StartupExits ==
    boot.pc # "idle" =>
        /\ boot.exits \in { <<>>, <<1>> }
        /\ boot.exits # <<>> <=>
              \/ boot.setup \notin {unset, null}
              \/ ErrorBeforeReady
        /\ boot.pc = "exited" <=> boot.exits # <<>>
        /\ \A i \in 1..Len(boot.subscribes) :
              /\ boot.subscribes[i] # <<>>
              /\ boot.subscribes[i][Len(boot.subscribes[i])] = "ready"
              /\ boot.who = "MongoQueueProcessor" => boot.setup = null
        /\ boot.who = "MetricsConsumer" => boot.setup = unset

\* The mirror's database setup succeeded, its consumer became ready and
\* subscribed, then reported errors: the process is still running.
C33_Witness ==
    /\ boot.pc = "consumer"
    /\ boot.who = "MongoQueueProcessor"
    /\ boot.setup = null
    /\ boot.events = <<"ready", "error", "error">>
    /\ Len(boot.subscribes) = 1
    /\ boot.exits = <<>>

C35_NothingAfterReport ==
    [][ Reported =>
          /\ task'.reqs["multipleBackendPutMPUPart"] = task.reqs["multipleBackendPutMPUPart"]
          /\ task'.reqs["multipleBackendPutObject"] = task.reqs["multipleBackendPutObject"]
          /\ task'.metrics = task.metrics
          /\ task'.topic = task.topic ]_vars

\* C36 (as claimed): the 'completed' metrics event of a part is published
\* only for an attempt whose outcome is reported as success: an attempt whose
\* callback already fired with a source-side error publishes no 'completed'
\* event and records no destination version id when its destination response
\* later arrives as success.
C36_CompletedOnlyOnReportedSuccess ==
    (attempt.pc = "running" /\ attempt.doneArgs # <<>> /\ attempt.doneArgs[1].err # null)
    => /\ attempt.completedBytes = 0
       /\ attempt.siteVersionId = undefined

\* The store after the k-th entry of the trace was handled.
StoreAfter(k) ==
    IF k = Len(consumer.trace) THEN consumer.store ELSE consumer.trace[k + 1].before

\* The k-th entry is an event of the consumer's extension, of one of the
\* types, that names no object: it is counted at site level.
IsSiteEvent(k, types) ==
    LET v == consumer.trace[k].entry.value IN
    /\ v.json = "object"
    /\ v.data.extension = consumer.id
    /\ v.data.type \in types
    /\ v.data.bucketName = "" \/ v.data.objectKey = "" \/ v.data.versionId = ""

\* The k-th entry is an event that names an object.
IsObjectEvent(k) ==
    LET v == consumer.trace[k].entry.value IN
    /\ v.json = "object"
    /\ v.data.extension = consumer.id
    /\ v.data.type \in {"completed", "failed", "queued"}
    /\ v.data.bucketName # "" /\ v.data.objectKey # "" /\ v.data.versionId # ""

\* C38: in MetricsConsumer, a site-level 'queued' event followed by a
\* site-level 'completed' or 'failed' event of the same site with the same ops
\* and bytes returns the site's opsPending and bytesPending to their prior
\* values, with events of other sites handled in between: 'queued' adds the
\* event's ops and bytes to the pending counters, 'completed' and 'failed'
\* subtract them.
C38_QueuedThenSettledRestoresPending ==
    consumer.id # "none" =>
      \A i \in 1..Len(consumer.trace), j \in 1..Len(consumer.trace) :
        LET q == consumer.trace[i].entry.value.data
            d == consumer.trace[j].entry.value.data
            redisKeys == _getRedisKeys(consumer, consumer.id)
        IN  ( /\ i < j
              /\ IsSiteEvent(i, {"queued"}) /\ IsSiteEvent(j, {"completed", "failed"})
              /\ d.site = q.site /\ d.ops = q.ops /\ d.bytes = q.bytes
              /\ \A k \in (i + 1)..(j - 1) :
                    /\ consumer.trace[k].entry.value.json = "object"
                    /\ consumer.trace[k].entry.value.data.site # q.site )
            => IF redisKeys = Thrown
               THEN StoreAfter(j) = consumer.trace[i].before
               ELSE \A keyType \in {"opsPending", "bytesPending"} :
                      LET key == SiteKey(q.site, redisKeys[keyType])
                          amount == IF keyType = "opsPending" THEN q.ops ELSE q.bytes
                          prior == Counter(consumer.trace[i].before, key)
                      IN  /\ Counter(StoreAfter(j), key) = prior
                          /\ redisKeys[keyType] # NoRedisKey =>
                               /\ Counter(StoreAfter(i), key) = prior + amount
                               /\ Counter(StoreAfter(j), key) =
                                     Counter(consumer.trace[j].before, key) - amount

\* The crr consumer counted a queued event of s1, then one of s2, then the
\* failure of the first: s1 has nothing pending, s2 still has.
C38_Witness ==
    /\ consumer.id = crrExtension
    /\ Len(consumer.trace) = 3
    /\ IsSiteEvent(1, {"queued"}) /\ IsSiteEvent(2, {"queued"}) /\ IsSiteEvent(3, {"failed"})
    /\ consumer.trace[1].entry.value.data.site = "s1"
    /\ consumer.trace[2].entry.value.data.site = "s2"
    /\ consumer.trace[3].entry.value.data.site = "s1"
    /\ consumer.trace[3].entry.value.data.ops = consumer.trace[1].entry.value.data.ops
    /\ consumer.trace[3].entry.value.data.bytes = consumer.trace[1].entry.value.data.bytes
    /\ SiteKey("s1", crrRedisKeys["opsPending"]) \in DOMAIN consumer.store
    /\ consumer.store[SiteKey("s1", crrRedisKeys["opsPending"])] = 0
    /\ consumer.store[SiteKey("s1", crrRedisKeys["bytesPending"])] = 0
    /\ consumer.store[SiteKey("s2", crrRedisKeys["opsPending"])] > 0

\* The keys at which two stores differ.
ChangedKeys(before, after) ==
    { key \in DOMAIN before \cup DOMAIN after :
        \/ Counter(before, key) # Counter(after, key)
        \/ key \in DOMAIN after \ DOMAIN before }

\* C39: MetricsConsumer.processKafkaEntry leaves every counter unchanged for
\* an entry whose value is not valid JSON, whose extension differs from the
\* consumer's id, or whose type is not one of completed, failed, queued; an
\* entry that carries bucketName, objectKey and versionId updates only keys of
\* that object and leaves every site-level counter unchanged.
C39_DroppedEntriesChangeNothing ==
    consumer.id # "none" =>
      \A k \in 1..Len(consumer.trace) :
        LET v == consumer.trace[k].entry.value
            before == consumer.trace[k].before
        IN  /\ v.json = "invalid" => StoreAfter(k) = before
            /\ (v.json = "object" /\ v.data.extension # consumer.id)
                  => StoreAfter(k) = before
            /\ (v.json = "object"
                    /\ v.data.type \notin {"completed", "failed", "queued"})
                  => StoreAfter(k) = before
            /\ IsObjectEvent(k) =>
                 \A key \in ChangedKeys(before, StoreAfter(k)) :
                    /\ Len(key) > 4
                    /\ SubSeq(key, 1, 4) = <<v.data.site, v.data.bucketName,
                                             v.data.objectKey, v.data.versionId>>

\* The crr consumer counted a queued event of s1, then the completion of an
\* object of s1, then dropped an event of another extension: the object's
\* bytes are recorded and the site still has one operation pending.
C39_Witness ==
    /\ consumer.id = crrExtension
    /\ Len(consumer.trace) = 3
    /\ IsSiteEvent(1, {"queued"})
    /\ consumer.trace[1].entry.value.data.site = "s1"
    /\ consumer.trace[1].entry.value.data.ops = 1
    /\ IsObjectEvent(2) /\ consumer.trace[2].entry.value.data.type = "completed"
    /\ consumer.trace[3].entry.value.json = "object"
    /\ consumer.trace[3].entry.value.data.extension # consumer.id
    /\ ChangedKeys(consumer.trace[2].before, StoreAfter(2)) # {}
    /\ Counter(consumer.store, SiteKey("s1", crrRedisKeys["opsPending"])) = 1

\* C40 (as claimed): MetricsConsumer.processKafkaEntry invokes done exactly
\* once and never with an error for every entry, whatever its content and
\* whatever id the consumer was constructed with.
C40_MetricsDoneExactlyOnce ==
    (consumer.id # "none" /\ consumer.trace # <<>>)
    => /\ consumer.pc = "ready"
       /\ consumer.doneArgs = << [err |-> null] >>

====
